---- MODULE Spec2Model ----
(***************************************************************************)
(* Model of the numeric core of src/src/utils/mlUtils.ts: trainTestSplit   *)
(* with the process-wide Math.random it overwrites, gaussianElimination,   *)
(* solveLeastSquares, trainLinearRegression, calculateR2 and               *)
(* calculateMetrics.                                                       *)
(*                                                                         *)
(* JavaScript numbers are modelled as exact rationals <<n, d>> in lowest   *)
(* terms with d > 0, extended with the three IEEE-754 specials:            *)
(*   <<0, 0>> is NaN, <<1, 0>> is +Infinity, <<-1, 0>> is -Infinity.       *)
(* Rounding of finite results is not modelled (finite arithmetic is        *)
(* exact), and zero is unsigned: a non-zero finite value divided by zero   *)
(* is the infinity with the sign of the numerator.  The JavaScript value   *)
(* undefined is the empty tuple <<>>.  JavaScript arrays are 0-based; the  *)
(* model keeps them as TLA+ sequences, 1-based, and says so where an index *)
(* is shifted.                                                             *)
(***************************************************************************)
EXTENDS Integers, Sequences, FiniteSets, TLC

VARIABLES
    call,        \* the last call of an exported function: its arguments and what it returned
    mathRandom,  \* the process-wide Math.random: the native source or an installed closure
    ref,         \* history: an earlier seeded trainTestSplit call, kept to compare later ones with
    calls        \* history: number of trainTestSplit calls made so far

vars == <<call, mathRandom, ref, calls>>

---------------------------------------------------------------------------
(* JavaScript number arithmetic *)

NaN == <<0, 0>>
PosInf == <<1, 0>>
NegInf == <<-1, 0>>
Undefined == <<>>

AbsInt(a) == IF a < 0 THEN -a ELSE a
SignInt(a) == IF a < 0 THEN -1 ELSE IF a = 0 THEN 0 ELSE 1

RECURSIVE GCD(_, _)
GCD(a, b) == IF b = 0 THEN a ELSE GCD(b, a % b)

\* the rational n/d (d # 0) in lowest terms with a positive denominator
Norm(n, d) ==
    LET g == GCD(AbsInt(n), AbsInt(d))
        s == SignInt(d)
    IN <<(s * n) \div g, (s * d) \div g>>

Num(k) == <<k, 1>>
Zero == Num(0)
One == Num(1)

IsNaN(a) == a = NaN
IsInf(a) == a[2] = 0 /\ a[1] # 0
IsFinite(a) == a[2] # 0
IsZero(a) == a[2] # 0 /\ a[1] = 0

\* arithmetic on undefined: ToNumber(undefined) is NaN
ToNumber(v) == IF v = Undefined THEN NaN ELSE v

NNeg(a) == <<-a[1], a[2]>>

NAdd(a, b) ==
    IF IsNaN(a) \/ IsNaN(b) THEN NaN
    ELSE IF IsInf(a) /\ IsInf(b) THEN (IF a = b THEN a ELSE NaN)
    ELSE IF IsInf(a) THEN a
    ELSE IF IsInf(b) THEN b
    ELSE Norm(a[1] * b[2] + b[1] * a[2], a[2] * b[2])

NSub(a, b) == NAdd(a, NNeg(b))

NMul(a, b) ==
    IF IsNaN(a) \/ IsNaN(b) THEN NaN
    ELSE IF IsInf(a) \/ IsInf(b) THEN <<SignInt(a[1]) * SignInt(b[1]), 0>>
    ELSE Norm(a[1] * b[1], a[2] * b[2])

NDiv(a, b) ==
    IF IsNaN(a) \/ IsNaN(b) THEN NaN
    ELSE IF IsInf(a) /\ IsInf(b) THEN NaN
    ELSE IF IsInf(a) THEN <<a[1] * (IF b[1] < 0 THEN -1 ELSE 1), 0>>
    ELSE IF IsInf(b) THEN Zero
    ELSE IF b[1] = 0 THEN <<SignInt(a[1]), 0>>
    ELSE Norm(a[1] * b[2], a[2] * b[1])

NAbs(a) == <<AbsInt(a[1]), a[2]>>

\* a > b as JavaScript compares numbers: false when either is NaN
NGt(a, b) ==
    IF IsNaN(a) \/ IsNaN(b) THEN FALSE
    ELSE IF IsInf(a) THEN a = PosInf /\ b # PosInf
    ELSE IF IsInf(b) THEN b = NegInf
    ELSE a[1] * b[2] > b[1] * a[2]

\* Math.pow(a, 2)
NSquare(a) == NMul(a, a)

\* Math.ceil
NCeil(a) == IF IsFinite(a) THEN Num(0 - ((0 - a[1]) \div a[2])) ELSE a

\* Math.floor
NFloor(a) == IF IsFinite(a) THEN Num(a[1] \div a[2]) ELSE a

RECURSIVE SumFrom(_, _, _)
\* arr.reduce((sum, v) => sum + v, init) over a sequence of numbers already mapped
SumFrom(init, s, i) ==
    IF i > Len(s) THEN init ELSE SumFrom(NAdd(init, s[i]), s, i + 1)

Sum(s) == SumFrom(Zero, s, 1)

---------------------------------------------------------------------------
(* gaussianElimination: mlUtils.ts 184-221.  Row and column r of the code  *)
(* is row and column r + 1 here.  The augmented matrix is a record: m is   *)
(* its rows by position, id[r] the identity of the array object that is    *)
(* row r.  The row objects of the argument A are the objects 1..n.         *)

\* line 186, A.map((row, i) => [...row, b[i]]): one new array object per row,
\* object n + r for row r
Augment(A, b) ==
    [m  |-> [r \in 1..Len(A) |-> Append(A[r], ToNumber(b[r]))],
     id |-> [r \in 1..Len(A) |-> Len(A) + r]]

\* no scan: the pivot row is the row the column starts with
FindPivotFirst(aug, i, k, maxRow) == maxRow

RECURSIVE FindPivot(_, _, _, _)
\* the scan of lines 191-196 from row k on, maxRow being the best row so far
FindPivot(aug, i, k, maxRow) ==
    IF k > Len(aug.m) THEN maxRow
    ELSE FindPivot(aug, i, k + 1,
                   IF NGt(NAbs(aug.m[k][i]), NAbs(aug.m[maxRow][i])) THEN k ELSE maxRow)

\* line 199: the two row references change places
SwapRows(aug, i, maxRow) ==
    LET sw(f) == [r \in 1..Len(f) |->
                    IF r = i THEN f[maxRow] ELSE IF r = maxRow THEN f[i] ELSE f[r]]
    IN [m |-> sw(aug.m), id |-> sw(aug.id)]

\* lines 202-207: rows below i lose factor * row i in columns i..n (n being the b column)
EliminateBelow(aug, i) ==
    [aug EXCEPT !.m =
        [k \in 1..Len(aug.m) |->
            IF k <= i THEN aug.m[k]
            ELSE LET factor == NDiv(aug.m[k][i], aug.m[i][i])
                 IN [j \in 1..Len(aug.m[k]) |->
                        IF j < i THEN aug.m[k][j]
                        ELSE NSub(aug.m[k][j], NMul(factor, aug.m[i][j]))]]]

RECURSIVE ForwardElimination(_, _)
\* lines 189-208, from pivot column i on
ForwardElimination(aug, i) ==
    IF i > Len(aug.m) THEN aug
    ELSE ForwardElimination(
            EliminateBelow(SwapRows(aug, i, FindPivot(aug, i, i + 1, i)), i), i + 1)

RECURSIVE BackRow(_, _, _, _, _)
\* lines 214-216: solution[i] -= augmented[i][j] * solution[j] for j = i+1..n-1
BackRow(m, sol, i, j, acc) ==
    IF j > Len(m) THEN acc
    ELSE BackRow(m, sol, i, j + 1, NSub(acc, NMul(m[i][j], sol[j])))

RECURSIVE BackSubstitution(_, _, _)
\* lines 211-218, from row i down to the first
BackSubstitution(m, sol, i) ==
    IF i < 1 THEN sol
    ELSE LET v == NDiv(BackRow(m, sol, i, i + 1, m[i][Len(m) + 1]), m[i][i])
         IN BackSubstitution(m, [sol EXCEPT ![i] = v], i - 1)

\* the whole call: the solution it returns, and the arguments as the caller finds
\* them afterwards: row object r of A holds what the elimination wrote to it, if it
\* wrote to it; b is only read (line 186)
GaussianElimination(A, b) ==
    LET n == Len(A)
        aug == ForwardElimination(Augment(A, b), 1)
    IN [solution |-> BackSubstitution(aug.m, [i \in 1..n |-> Zero], n),
        AAfter   |-> [r \in 1..n |->
                        IF \E q \in 1..n : aug.id[q] = r
                        THEN aug.m[CHOOSE q \in 1..n : aug.id[q] = r]
                        ELSE A[r]],
        bAfter   |-> b]

---------------------------------------------------------------------------
(* Linear algebra used to state the properties *)

\* row r of a matrix times a vector, summed left to right
Dot(u, v) == Sum([c \in 1..Len(u) |-> NMul(u[c], ToNumber(v[c]))])

MatVec(A, x) == [r \in 1..Len(A) |-> Dot(A[r], x)]

Minor(M, c) ==
    [r \in 1..(Len(M) - 1) |->
        [k \in 1..(Len(M) - 1) |-> M[r + 1][IF k < c THEN k ELSE k + 1]]]

RECURSIVE Det(_)
\* the determinant, by expansion along the first row
Det(M) ==
    IF Len(M) = 0 THEN One
    ELSE IF Len(M) = 1 THEN M[1][1]
    ELSE Sum([c \in 1..Len(M) |->
                NMul(IF c % 2 = 1 THEN M[1][c] ELSE NNeg(M[1][c]), Det(Minor(M, c)))])

AllFinite(v) == \A i \in 1..Len(v) : v[i] # Undefined /\ IsFinite(v[i])

---------------------------------------------------------------------------
(* trainTestSplit: mlUtils.ts 78-112, and the Math.random it draws from    *)

LcgMultiplier == 9301
LcgIncrement == 49297
LcgModulus == 233280

\* the % of JavaScript on integers: the result has the sign of the dividend
JsRem(a, m) == IF a >= 0 THEN a % m ELSE -((-a) % m)

\* Math.random as the engine provides it
NativeRandom == [native |-> TRUE, state |-> Zero]

\* lines 86-89: the closure over the parameter randomState
SeededRandom(randomState) == [native |-> FALSE, state |-> randomState]

\* lines 84-90 installing the closure only over the native source: a closure already
\* in place is kept, with the state earlier calls left in it
InstallOnce(rng, randomState) ==
    IF randomState # Undefined /\ rng.native
    THEN [native |-> FALSE, state |-> randomState] ELSE rng

\* lines 84-90: a supplied seed replaces the process-wide Math.random
Install(rng, randomState) ==
    IF randomState # Undefined THEN SeededRandom(randomState) ELSE rng

\* (a * b) % m of JavaScript for b, m > 0, the product reduced part by part so
\* that every intermediate value stays small
JsMulRem(a, b, m) ==
    LET part == 100
    IN JsRem(JsRem(a * (b \div part), m) * part + JsRem(a * (b % part), m), m)

\* lines 87-88: the closure's next state (NaN stays NaN),
\* (state * 9301 + 49297) % 233280.  The state is an integer.  The remainder of the
\* product plus the increment has the remainder asked for, up to the sign, which is
\* that of the sum: negative for a state below -5.
LcgNext(state) ==
    IF IsFinite(state)
    THEN LET rest == JsMulRem(state[1], LcgMultiplier, LcgModulus) + LcgIncrement
         IN IF state[1] < 0 - (LcgIncrement \div LcgMultiplier) /\ rest > 0
            THEN Num(rest - LcgModulus)
            ELSE Num(JsRem(rest, LcgModulus))
    ELSE NaN

\* one call of Math.random(): the value returned and the source afterwards;
\* nativeValue is what the native source returns, had it been asked
MathRandomCall(rng, nativeValue) ==
    IF rng.native THEN [value |-> nativeValue, rng |-> rng]
    ELSE LET next == LcgNext(rng.state)
         IN [value |-> NDiv(next, Num(LcgModulus)), rng |-> [rng EXCEPT !.state = next]]

\* An array object: elems are its elements 0..length-1 (at 1..length here), props
\* the other properties written to it, as <<key, value>> pairs with distinct keys.
IsIndex(arr, j) == IsFinite(j) /\ j[2] = 1 /\ j[1] >= 0 /\ j[1] < Len(arr.elems)

ArrayGet(arr, j) ==
    IF IsIndex(arr, j) THEN arr.elems[j[1] + 1]
    ELSE IF \E p \in arr.props : p[1] = j
         THEN (CHOOSE p \in arr.props : p[1] = j)[2]
         ELSE Undefined

ArraySet(arr, j, v) ==
    IF IsIndex(arr, j) THEN [arr EXCEPT !.elems[j[1] + 1] = v]
    ELSE [arr EXCEPT !.props = {p \in arr.props : p[1] # j} \cup {<<j, v>>}]

\* line 92: Array.from({length: n}, (_, i) => i)
InitialIndices(n) == [elems |-> [k \in 1..n |-> Num(k - 1)], props |-> {}]

\* line 96 with Math.round in the place of Math.floor
SwapIndexRounded(r, i) == NFloor(NAdd(NMul(r, Num(i + 1)), Norm(1, 2)))

\* line 96
SwapIndex(r, i) == NFloor(NMul(r, Num(i + 1)))

\* line 97: [indices[i], indices[j]] = [indices[j], indices[i]]
SwapEntries(arr, i, j) ==
    LET first == ArrayGet(arr, j)
        second == ArrayGet(arr, Num(i))
    IN ArraySet(ArraySet(arr, Num(i), first), j, second)

RECURSIVE Shuffle(_, _, _, _)
\* lines 95-98 from i down to 1; picks[i] is the native value of iteration i
Shuffle(arr, rng, i, picks) ==
    IF i <= 0 THEN [indices |-> arr, rng |-> rng]
    ELSE LET d == MathRandomCall(rng, picks[i])
         IN Shuffle(SwapEntries(arr, i, SwapIndex(d.value, i)), d.rng, i - 1, picks)

\* the relative index of Array.prototype.slice: NaN is 0, negatives count from the end
RelativeIndex(k, len) ==
    IF ~IsFinite(k) THEN (IF k = PosInf THEN len ELSE 0)
    ELSE IF k[1] < 0 THEN (IF len + k[1] < 0 THEN 0 ELSE len + k[1])
    ELSE IF k[1] > len THEN len ELSE k[1]

\* elems.slice(from, to) for relative indices already resolved
Slice(elems, from, to) ==
    IF to <= from THEN <<>> ELSE [k \in 1..(to - from) |-> elems[from + k]]

\* X[i] for an entry of the index array: undefined selects nothing
Pick(X, idx) == IF idx = Undefined THEN Undefined ELSE X[idx[1] + 1]

\* the whole call: the four arrays returned, the index arrays they were built
\* from, and the process-wide random source as the call leaves it
TrainTestSplit(X, y, testSize, randomState, rng, picks) ==
    LET n == Len(X)
        sh == Shuffle(InitialIndices(n), Install(rng, randomState), n - 1, picks)
        testCount == NFloor(NMul(Num(n), testSize))
        trainCount == NSub(Num(n), testCount)
        cut == RelativeIndex(trainCount, n)
        trainIndices == Slice(sh.indices.elems, 0, cut)
        testIndices == Slice(sh.indices.elems, cut, n)
    IN [xTrain |-> [k \in 1..Len(trainIndices) |-> Pick(X, trainIndices[k])],
        xTest  |-> [k \in 1..Len(testIndices) |-> Pick(X, testIndices[k])],
        yTrain |-> [k \in 1..Len(trainIndices) |-> Pick(y, trainIndices[k])],
        yTest  |-> [k \in 1..Len(testIndices) |-> Pick(y, testIndices[k])],
        indices      |-> sh.indices.elems,
        trainIndices |-> trainIndices,
        testIndices  |-> testIndices,
        mathRandom   |-> sh.rng]

---------------------------------------------------------------------------
(* trainLinearRegression, solveLeastSquares, calculateR2, calculateMetrics *)

\* arr[i] of the code for the 1-based position i: undefined past the end
At(s, i) == IF i \in 1..Len(s) THEN s[i] ELSE Undefined

\* lines 159-181: the normal equations of the design matrix, handed to the solver
NormalMatrix(D) ==
    LET n == Len(D)
        p == Len(D[1])
    IN [i \in 1..p |-> [j \in 1..p |-> Sum([k \in 1..n |-> NMul(D[k][i], D[k][j])])]]

NormalVector(D, y) ==
    LET n == Len(D)
        p == Len(D[1])
    IN [i \in 1..p |-> Sum([k \in 1..n |-> NMul(D[k][i], ToNumber(At(y, k)))])]

SolveLeastSquares(D, y) == GaussianElimination(NormalMatrix(D), NormalVector(D, y)).solution

\* line 134 with the columns in the wrong order: the constant 1 appended
DesignMatrixOnesLast(X) == [k \in 1..Len(X) |-> Append(X[k], One)]

\* line 134: X.map(row => [1, ...row])
DesignMatrix(X) == [k \in 1..Len(X) |-> <<One>> \o X[k]]

\* lines 144 and 226: intercept + row.reduce((sum, val, idx) => sum + val * slopes[idx], 0)
PredictRow(row, intercept, slopes) ==
    NAdd(intercept, Sum([c \in 1..Len(row) |-> NMul(row[c], ToNumber(At(slopes, c)))]))

\* model.predict(values), lines 142-146
Predict(model, values) ==
    [k \in 1..Len(values) |-> PredictRow(values[k], model.intercept, model.coefficients)]

\* lines 229-233 and 251-254: 1 - SSres / SStot of targets y against predictions
R2(y, predictions) ==
    LET yMean == NDiv(Sum(y), Num(Len(y)))
        totalSumSquares == Sum([k \in 1..Len(y) |-> NSquare(NSub(y[k], yMean))])
        residualSumSquares ==
            Sum([k \in 1..Len(y) |-> NSquare(NSub(y[k], ToNumber(At(predictions, k))))])
    IN NSub(One, NDiv(residualSumSquares, totalSumSquares))

\* lines 224-234
CalculateR2(X, y, intercept, coefficients) ==
    R2(y, [k \in 1..Len(X) |-> PredictRow(X[k], intercept, coefficients)])

\* lines 237-257 with the absolute value of line 247 left out
CalculateMetricsSigned(yTrue, yPred) ==
    LET n == Len(yTrue)
        diff(i) == NSub(yTrue[i], ToNumber(At(yPred, i)))
    IN [r2  |-> R2(yTrue, yPred),
        mse |-> NDiv(Sum([i \in 1..n |-> NSquare(diff(i))]), Num(n)),
        mae |-> NDiv(Sum([i \in 1..n |-> diff(i)]), Num(n))]

\* lines 237-257
CalculateMetrics(yTrue, yPred) ==
    LET n == Len(yTrue)
        diff(i) == NSub(yTrue[i], ToNumber(At(yPred, i)))
    IN [r2  |-> R2(yTrue, yPred),
        mse |-> NDiv(Sum([i \in 1..n |-> NSquare(diff(i))]), Num(n)),
        mae |-> NDiv(Sum([i \in 1..n |-> NAbs(diff(i))]), Num(n))]

\* lines 115-156 for X[0].length # 1.  Reading X[0].length of an empty X throws a
\* TypeError before the try block is entered.  Inside the try block no statement
\* throws on arrays of numbers (JavaScript division by zero yields NaN or an
\* infinity), so the catch of lines 151-154 is never entered.  The single-feature
\* branch (lines 116-124) delegates to the ml-regression package.
TrainLinearRegression(X, y) ==
    IF Len(X) = 0 THEN [status |-> "TypeError"]
    ELSE LET coefficients == SolveLeastSquares(DesignMatrix(X), y)
             intercept == coefficients[1]
             slopes == Slice(coefficients, 1, Len(coefficients))
         IN [status       |-> "returned",
             coefficients |-> slopes,
             intercept    |-> intercept,
             score        |-> CalculateR2(X, y, intercept, slopes)]

---------------------------------------------------------------------------
(* getValueCounts and getUniqueValues: mlUtils.ts 29-61.  A dataset enters  *)
(* both only through row[column], so it is modelled as the sequence of the  *)
(* cells of the column, a row without the key holding undefined.  A value   *)
(* is a record of a tag t and a payload v; a string is the sequence of the  *)
(* collation ranks of its characters.                                       *)

\* the characters of the model in the order localeCompare ranks them: blank and
\* punctuation before digits before letters
Alphabet ==
    <<" ", "_", ",", "0", "1", "2", "3", "4", "5", "6", "7", "8", "9",
      "a", "b", "c", "d", "e", "f", "g", "h", "i", "j", "k", "l", "m",
      "n", "o", "p", "q", "r", "s", "t", "u", "v", "w", "x", "y", "z">>

CharCode(c) == CHOOSE i \in 1..Len(Alphabet) : Alphabet[i] = c
Str(t) == [i \in 1..Len(t) |-> CharCode(t[i])]
DigitCode(d) == CharCode("0") + d
IsDigit(code) == code >= DigitCode(0) /\ code <= DigitCode(9)

Blank == CharCode(" ")
Comma == CharCode(",")

RECURSIVE TrimStart(_)
TrimStart(str) ==
    IF Len(str) > 0 /\ str[1] = Blank THEN TrimStart(Slice(str, 1, Len(str))) ELSE str

RECURSIVE TrimEnd(_)
TrimEnd(str) ==
    IF Len(str) > 0 /\ str[Len(str)] = Blank THEN TrimEnd(Slice(str, 0, Len(str) - 1))
    ELSE str

\* str.trim()
Trim(str) == TrimEnd(TrimStart(str))

NumberValue(k) == [t |-> "number", v |-> Num(k)]
StringValue(str) == [t |-> "string", v |-> str]
UndefinedValue == [t |-> "undefined", v |-> <<>>]
NullValue == [t |-> "null", v |-> <<>>]
\* Object.prototype.constructor, the function Object
ObjectFunction == [t |-> "function", v |-> <<>>]
\* Object.prototype, what the __proto__ getter of a plain object returns
ObjectPrototype == [t |-> "object", v |-> <<>>]

RECURSIVE DecimalDigits(_)
\* the decimal digits of a non-negative integer
DecimalDigits(k) ==
    IF k < 10 THEN <<DigitCode(k)>>
    ELSE Append(DecimalDigits(k \div 10), DigitCode(k % 10))

\* String(value).  String(Object) is a text that starts with "function" and
\* String(Object.prototype) one that starts with "object"; of either only the fact
\* that it is a non-numeric text matters, and the first word stands for it.
StringOf(value) ==
    CASE value.t = "number" -> DecimalDigits(value.v[1])
      [] value.t = "string" -> value.v
      [] value.t = "undefined" -> Str(<<"u", "n", "d", "e", "f", "i", "n", "e", "d">>)
      [] value.t = "null" -> Str(<<"n", "u", "l", "l">>)
      [] value.t = "function" -> Str(<<"f", "u", "n", "c", "t", "i", "o", "n">>)
      [] value.t = "object" -> Str(<<"o", "b", "j", "e", "c", "t">>)

RECURSIVE DigitsValue(_, _)
\* the integer a sequence of digits denotes, the first i of them
DigitsValue(str, i) ==
    IF i = 0 THEN 0 ELSE 10 * DigitsValue(str, i - 1) + (str[i] - DigitCode(0))

\* a string written as a canonical decimal integer
IsCanonicalInteger(str) ==
    /\ Len(str) > 0
    /\ \A i \in 1..Len(str) : IsDigit(str[i])
    /\ Len(str) = 1 \/ str[1] # DigitCode(0)

\* value used as a number by the operator - and by Number(): of a text the blanks
\* around it do not count, an empty text is 0, a text that is not numeric is NaN
ToNumeric(value) ==
    CASE value.t = "number" -> value.v
      [] value.t = "string" ->
            LET str == Trim(value.v)
            IN IF IsCanonicalInteger(str) THEN Num(DigitsValue(str, Len(str)))
               ELSE IF Len(str) = 0 THEN Zero ELSE NaN
      [] value.t = "null" -> Zero
      [] OTHER -> NaN

\* the value is truthy
Truthy(value) ==
    CASE value.t = "number" -> ~IsNaN(value.v) /\ ~IsZero(value.v)
      [] value.t = "string" -> Len(value.v) > 0
      [] value.t \in {"undefined", "null"} -> FALSE
      [] OTHER -> TRUE

\* value + 1 (line 35): numeric addition for a number, concatenation otherwise
PlusOne(value) ==
    IF value.t = "number" THEN [t |-> "number", v |-> NAdd(value.v, One)]
    ELSE StringValue(Append(StringOf(value), DigitCode(1)))

\* A plain object, as the sequence of its own properties in the order they were
\* created.  The keys Object.prototype provides, among the strings of the model:
ProtoKey == Str(<<"_", "_", "p", "r", "o", "t", "o", "_", "_">>)
ConstructorKey == Str(<<"c", "o", "n", "s", "t", "r", "u", "c", "t", "o", "r">>)

HasOwn(obj, key) == \E i \in 1..Len(obj) : obj[i].key = key

\* obj[key]: the own property, else what the prototype chain provides
GetProperty(obj, key) ==
    IF HasOwn(obj, key) THEN obj[CHOOSE i \in 1..Len(obj) : obj[i].key = key].value
    ELSE IF key = ProtoKey THEN ObjectPrototype
    ELSE IF key = ConstructorKey THEN ObjectFunction
    ELSE UndefinedValue

\* obj[key] = value, for a value that is not an object: the __proto__ setter ignores
\* it, any other key becomes or stays an own property
SetProperty(obj, key, value) ==
    IF key = ProtoKey THEN obj
    ELSE IF HasOwn(obj, key)
         THEN [i \in 1..Len(obj) |-> IF obj[i].key = key
                                     THEN [key |-> key, value |-> value] ELSE obj[i]]
         ELSE Append(obj, [key |-> key, value |-> value])

\* an array index as a property key: a canonical integer below 2^32 - 1
IsArrayIndex(key) ==
    IsCanonicalInteger(key) /\ Len(key) <= 9

RECURSIVE AscendingKeys(_)
\* a set of array-index keys in ascending numeric order
AscendingKeys(keys) ==
    IF keys = {} THEN <<>>
    ELSE LET least == CHOOSE k \in keys :
                        \A o \in keys : DigitsValue(k, Len(k)) <= DigitsValue(o, Len(o))
         IN <<least>> \o AscendingKeys(keys \ {least})

RECURSIVE OtherProperties(_, _)
\* the properties obj[i], obj[i+1], .. whose key is no array index, in order
OtherProperties(obj, i) ==
    IF i > Len(obj) THEN <<>>
    ELSE (IF IsArrayIndex(obj[i].key) THEN <<>> ELSE <<obj[i]>>) \o OtherProperties(obj, i + 1)

\* Object.entries(obj): the array-index keys first, ascending, then the other keys
\* in the order they were created
ObjectEntries(obj) ==
    LET indexKeys == AscendingKeys({obj[i].key : i \in {j \in 1..Len(obj) :
                                                          IsArrayIndex(obj[j].key)}})
    IN [i \in 1..Len(indexKeys) |->
            [key |-> indexKeys[i], value |-> GetProperty(obj, indexKeys[i])]]
       \o OtherProperties(obj, 1)

\* the sign of a comparator result as sort uses it: NaN counts as 0
CompareSign(a) == IF IsNaN(a) THEN 0 ELSE SignInt(a[1])

\* cmp[i][j] being the sign of the comparator on elements i and j of an array: the
\* comparator orders the elements consistently, that is, it is symmetric and its
\* "equal" and "before" are transitive
Consistent(cmp) ==
    \A i, j, k \in DOMAIN cmp :
        /\ cmp[i][i] = 0
        /\ cmp[i][j] = 0 - cmp[j][i]
        /\ (cmp[i][j] = 0 /\ cmp[j][k] = 0) => cmp[i][k] = 0
        /\ (cmp[i][j] < 0 /\ cmp[j][k] < 0) => cmp[i][k] < 0
        /\ (cmp[i][j] < 0 /\ cmp[j][k] = 0) => cmp[i][k] < 0
        /\ (cmp[i][j] = 0 /\ cmp[j][k] < 0) => cmp[i][k] < 0

\* Array.prototype.sort with a comparator of signs cmp: the arrays it can return.
\* With a consistent comparator the one stable arrangement; otherwise the order is
\* left to the implementation, and every arrangement is possible.
SortOutcomes(seq, cmp) ==
    LET StableSorted(p) ==
            \A j, k \in 1..Len(seq) :
                j < k => \/ cmp[p[j]][p[k]] < 0
                         \/ cmp[p[j]][p[k]] = 0 /\ p[j] < p[k]
    IN {[k \in 1..Len(seq) |-> seq[p[k]]] :
            p \in {q \in Permutations(1..Len(seq)) : Consistent(cmp) => StableSorted(q)}}

RECURSIVE CountRows(_, _, _)
\* lines 32-36 from row i on
CountRows(column, counts, i) ==
    IF i > Len(column) THEN counts
    ELSE LET stringValue == StringOf(column[i])
             old == GetProperty(counts, stringValue)
             new == PlusOne(IF Truthy(old) THEN old ELSE NumberValue(0))
         IN CountRows(column, SetProperty(counts, stringValue, new), i + 1)

\* line 40: (a, b) => b.count - a.count
CompareCounts(a, b) == CompareSign(NSub(ToNumeric(b.count), ToNumeric(a.count)))

\* lines 29-41: the arrays the call can return
GetValueCounts(column) ==
    LET entries == ObjectEntries(CountRows(column, <<>>, 1))
        mapped == [i \in 1..Len(entries) |->
                      [value |-> entries[i].key, count |-> entries[i].value]]
    IN SortOutcomes(mapped, [i \in 1..Len(mapped) |->
                                [j \in 1..Len(mapped) |-> CompareCounts(mapped[i], mapped[j])]])

\* uniqueSet.add(value) that appends without looking for the value
SetAddAlways(set, value) == Append(set, value)

\* uniqueSet.add(value): a Set keeps insertion order and holds a value once
SetAdd(set, value) ==
    IF \E i \in 1..Len(set) : set[i] = value THEN set ELSE Append(set, value)

RECURSIVE CollectUnique(_, _, _)
\* lines 46-51 from row i on
CollectUnique(column, uniqueSet, i) ==
    IF i > Len(column) THEN uniqueSet
    ELSE CollectUnique(column,
                       IF column[i].t = "string" \/ column[i].t = "number"
                       THEN SetAdd(uniqueSet, column[i]) ELSE uniqueSet,
                       i + 1)

RECURSIVE LocaleCompareFrom(_, _, _)
\* a.localeCompare(b) from character i on: by the rank of the first character
\* that differs, a proper prefix first
LocaleCompareFrom(a, b, i) ==
    IF i > Len(a) /\ i > Len(b) THEN 0
    ELSE IF i > Len(a) THEN 0 - 1
    ELSE IF i > Len(b) THEN 1
    ELSE IF a[i] < b[i] THEN 0 - 1
    ELSE IF a[i] > b[i] THEN 1
    ELSE LocaleCompareFrom(a, b, i + 1)

LocaleCompare(a, b) == LocaleCompareFrom(a, b, 1)

\* lines 52-60: the comparator of getUniqueValues
CompareUnique(a, b) ==
    IF a.t = "string" /\ b.t = "string" THEN LocaleCompare(a.v, b.v)
    ELSE IF a.t = "number" /\ b.t = "number" THEN CompareSign(NSub(a.v, b.v))
    ELSE LocaleCompare(StringOf(a), StringOf(b))

\* lines 44-61: the arrays the call can return
GetUniqueValues(column) ==
    LET values == CollectUnique(column, <<>>, 1)
    IN SortOutcomes(values, [i \in 1..Len(values) |->
                                [j \in 1..Len(values) |-> CompareUnique(values[i], values[j])]])

\* { ...row }: a new object with the own properties of row, in the order of its keys
Spread(row) == ObjectEntries(row)

\* [key]: value in an object literal: an own property under whatever key, in the
\* place of a property of that key already defined
DefineProperty(obj, key, value) ==
    IF HasOwn(obj, key)
    THEN [i \in 1..Len(obj) |-> IF obj[i].key = key
                                THEN [key |-> key, value |-> value] ELSE obj[i]]
    ELSE Append(obj, [key |-> key, value |-> value])

\* lines 69-74: the object the callback of map returns for a row
ReplaceRow(row, column, replacements) ==
    LET cell == GetProperty(row, column)
        mapped == GetProperty(replacements, StringOf(cell))
    IN DefineProperty(Spread(row), column,
                      IF mapped # UndefinedValue THEN mapped ELSE cell)

\* Objects live in a heap, a sequence in which an object's place is its identity; an
\* array of rows is a sequence of identities.
\* a replaceValues that writes the new cell into the row it was given
ReplaceValuesInPlace(heap, data, column, replacements) ==
    [heap |-> [id \in 1..Len(heap) |->
                  IF \E i \in 1..Len(data) : data[i] = id
                  THEN ReplaceRow(heap[id], column, replacements) ELSE heap[id]],
     result |-> data]

\* lines 64-75: data.map allocates one object per row, after those of the heap
ReplaceValues(heap, data, column, replacements) ==
    [heap |-> heap \o [i \in 1..Len(data) |->
                          ReplaceRow(heap[data[i]], column, replacements)],
     result |-> [i \in 1..Len(data) |-> Len(heap) + i]]

RECURSIVE DigitPrefix(_, _)
\* the length of the longest run of digits of str that starts at character i, plus
\* i - 1
DigitPrefix(str, i) ==
    IF i > Len(str) \/ ~IsDigit(str[i]) THEN i - 1 ELSE DigitPrefix(str, i + 1)

\* parseFloat(str) for a text without sign, fraction, exponent or blanks: the number
\* its leading digits denote, whatever follows them, NaN without a leading digit
ParseFloat(str) ==
    LET k == DigitPrefix(str, 1)
    IN IF k = 0 THEN NaN ELSE Num(DigitsValue(str, k))

\* typeof value === 'number' ? value : parseFloat(String(value))
ToFloat(value) ==
    IF value.t = "number" THEN value.v ELSE ParseFloat(StringOf(value))

\* lines 269-273: the entry of a feature vector
FeatureOf(row, col) ==
    LET numValue == ToFloat(GetProperty(row, col))
    IN IF IsNaN(numValue) THEN Zero ELSE numValue

\* line 269: featureColumns.map
FeaturesOf(row, featureColumns) ==
    [j \in 1..Len(featureColumns) |-> FeatureOf(row, featureColumns[j])]

RECURSIVE ExtractRows(_, _, _, _, _)
\* lines 268-282 from row i on
ExtractRows(data, featureColumns, targetColumn, out, i) ==
    IF i > Len(data) THEN out
    ELSE LET features == FeaturesOf(data[i], featureColumns)
             targetValue == ToFloat(GetProperty(data[i], targetColumn))
         IN ExtractRows(data, featureColumns, targetColumn,
                        IF ~IsNaN(targetValue)
                        THEN [X |-> Append(out.X, features), y |-> Append(out.y, targetValue)]
                        ELSE out,
                        i + 1)

\* an extractFeatures that pushes the feature vector of every row
ExtractFeaturesEveryRow(data, featureColumns, targetColumn) ==
    [X |-> [i \in 1..Len(data) |-> FeaturesOf(data[i], featureColumns)],
     y |-> ExtractRows(data, featureColumns, targetColumn, [X |-> <<>>, y |-> <<>>], 1).y]

\* lines 260-285
ExtractFeatures(data, featureColumns, targetColumn) ==
    ExtractRows(data, featureColumns, targetColumn, [X |-> <<>>, y |-> <<>>], 1)

---------------------------------------------------------------------------
(* The training panel: ModelTraining.tsx 11-124, and the effect of the      *)
(* results view, Results.tsx 17-34.  The panel's state is the record of its *)
(* useState cells; a handler is one step, its state updates applied in      *)
(* order.                                                                   *)

RECURSIVE SplitFrom(_, _, _, _)
\* str.split(sep) from character i on, piece being the piece begun
SplitFrom(str, sep, i, piece) ==
    IF i > Len(str) THEN <<piece>>
    ELSE IF str[i] = sep THEN <<piece>> \o SplitFrom(str, sep, i + 1, <<>>)
    ELSE SplitFrom(str, sep, i + 1, Append(piece, str[i]))

SplitString(str, sep) == SplitFrom(str, sep, 1, <<>>)

RECURSIVE NonEmptyFrom(_, _)
\* .filter(f => f) on texts, from element i on
NonEmptyFrom(strs, i) ==
    IF i > Len(strs) THEN <<>>
    ELSE (IF Len(strs[i]) > 0 THEN <<strs[i]>> ELSE <<>>) \o NonEmptyFrom(strs, i + 1)

\* lines 37 and 107: features.split(',').map(f => f.trim()).filter(f => f)
FeatureColumnsOf(features) ==
    LET pieces == SplitString(features, Comma)
    IN NonEmptyFrom([i \in 1..Len(pieces) |-> Trim(pieces[i])], 1)

\* arr.includes(x)
Includes(arr, x) == \E i \in 1..Len(arr) : arr[i] = x

\* line 20: the keys of the first row
ColumnsOf(data) ==
    IF Len(data) > 0
    THEN LET entries == ObjectEntries(data[1]) IN [i \in 1..Len(entries) |-> entries[i].key]
    ELSE <<>>

\* lines 21-24: a column is numeric when the first cell of it that is neither null
\* nor '' converts to a number
IsNumericColumn(data, col) ==
    LET Filled(i) == GetProperty(data[i], col) \notin {NullValue, StringValue(<<>>)}
    IN /\ \E i \in 1..Len(data) : Filled(i)
       /\ LET first == CHOOSE i \in 1..Len(data) : Filled(i) /\ \A j \in 1..(i - 1) : ~Filled(j)
          IN ~IsNaN(ToNumeric(GetProperty(data[first], col)))

NumericColumns(data) ==
    LET columns == ColumnsOf(data)
    IN {columns[i] : i \in {j \in 1..Len(columns) : IsNumericColumn(data, columns[j])}}

RECURSIVE InvalidFrom(_, _, _)
\* line 40: featureColumns.filter(col => !columns.includes(col)), from element i on
InvalidFrom(featureColumns, columns, i) ==
    IF i > Len(featureColumns) THEN <<>>
    ELSE (IF Includes(columns, featureColumns[i]) THEN <<>> ELSE <<featureColumns[i]>>)
         \o InvalidFrom(featureColumns, columns, i + 1)

\* a validation that lets every column name pass
InvalidColumnsNone(featureColumns, columns) == <<>>

InvalidColumns(featureColumns, columns) == InvalidFrom(featureColumns, columns, 1)

\* a check for usable rows that never fires
NoValidDataNever(X) == FALSE

\* line 62: X.length === 0
NoValidData(X) == Len(X) = 0

\* the single-feature branch, lines 116-124: the least-squares line through the
\* points (x, y) as SimpleLinearRegression of ml-regression computes it, and the r2
\* of its score, the squared correlation of predictions and targets
SimpleLinearRegression(x, y) ==
    LET n == Num(Len(x))
        xSum == Sum(x)
        ySum == Sum(y)
        xSquared == Sum([i \in 1..Len(x) |-> NMul(x[i], x[i])])
        xY == Sum([i \in 1..Len(x) |-> NMul(x[i], y[i])])
        slope == NDiv(NSub(NMul(n, xY), NMul(xSum, ySum)),
                      NSub(NMul(n, xSquared), NMul(xSum, xSum)))
        intercept == NSub(NMul(NDiv(One, n), ySum), NMul(NMul(slope, NDiv(One, n)), xSum))
        y2 == [i \in 1..Len(x) |-> NAdd(NMul(slope, x[i]), intercept)]
        pSum == Sum(y2)
        pSquared == Sum([i \in 1..Len(x) |-> NMul(y2[i], y2[i])])
        ySquared == Sum([i \in 1..Len(x) |-> NMul(y[i], y[i])])
        pY == Sum([i \in 1..Len(x) |-> NMul(y2[i], y[i])])
        r2 == NDiv(NSquare(NSub(NMul(n, pY), NMul(pSum, ySum))),
                   NMul(NSub(NMul(n, pSquared), NMul(pSum, pSum)),
                        NSub(NMul(n, ySquared), NMul(ySum, ySum))))
    IN [status |-> "returned", coefficients |-> <<slope>>, intercept |-> intercept,
        score |-> r2]

\* lines 115-156 with both branches
TrainModel(X, y) ==
    IF Len(X) > 0 /\ Len(X[1]) = 1
    THEN SimpleLinearRegression([i \in 1..Len(X) |-> X[i][1]], y)
    ELSE TrainLinearRegression(X, y)

---------------------------------------------------------------------------
(* Inputs *)

MaxEntry == 2       \* entries of a solver matrix and right-hand side are -1..MaxEntry
MaxFeature == 1     \* feature cells of a training row are 0..MaxFeature
MaxTarget == 1      \* free training targets are 0..MaxTarget
MaxCoef == 1        \* a generating linear model has intercept 0..MaxCoef, slopes -1..MaxCoef
MaxLen == 3         \* yTrue and yPred of calculateMetrics have at most MaxLen entries
MaxTrue == 2        \* entries of yTrue are 0..MaxTrue
MaxPred == 1        \* entries of yPred are 0..MaxPred
MaxN == 3           \* trainTestSplit is called on at most MaxN rows
MaxCalls == 3       \* trainTestSplit calls in one session
MaxDraws == 2       \* draws already made from an installed closure when a single call starts
MaxRows == 3        \* a column of getValueCounts or getUniqueValues has at most MaxRows cells

Nums(S) == {Num(k) : k \in S}
Vectors(n, S) == [1..n -> Nums(S)]
Matrices(n, p, S) == [1..n -> Vectors(p, S)]
Vec(t) == [k \in 1..Len(t) |-> Num(t[k])]
Mat(t) == [k \in 1..Len(t) |-> Vec(t[k])]

SolverDims == {1, 2}
SolverExamples ==
    {[A |-> Mat(<< <<2, 1>>, <<1, 3>> >>), b |-> Vec(<<3, 5>>)],
     [A |-> Mat(<< <<1, 2>>, <<2, 4>> >>), b |-> Vec(<<1, 1>>)],
     [A |-> Mat(<< <<0, 2, 1>>, <<1, 1, 0>>, <<3, 0, 1>> >>), b |-> Vec(<<1, 2, 3>>)],
     [A |-> Mat(<< <<1, 2, 3>>, <<2, 4, 6>>, <<1, 0, 1>> >>), b |-> Vec(<<1, 2, 3>>)]}

\* y = c[1] + c[2] * x1 + c[3] * x2 + ... for every row of X
Linear(X, c) == [k \in 1..Len(X) |-> PredictRow(X[k], c[1], Slice(c, 1, Len(c)))]

FitRowCounts == {1, 2, 3}
FitFeatures == {2}
FitExamples ==
    {[X |-> Mat(<< <<1, 2>>, <<2, 4>>, <<3, 6>> >>), y |-> Vec(<<1, 2, 3>>), c |-> <<>>],
     [X |-> Mat(<< <<1, 2>>, <<2, 4>>, <<3, 6>> >>), y |-> Vec(<<1, 0, 2>>), c |-> <<>>],
     [X |-> Mat(<< <<1, 0>>, <<0, 1>>, <<2, 2>>, <<3, 1>> >>),
      y |-> Vec(<<5, 2, 5, 8>>), c |-> Vec(<<3, 2, 0 - 1>>)],
     [X |-> Mat(<< <<1, 0, 0>>, <<0, 1, 0>>, <<0, 0, 1>>, <<1, 1, 1>> >>),
      y |-> Vec(<<1, 2, 3, 6>>), c |-> Vec(<<0, 1, 2, 3>>)]}

\* the rows of X in non-decreasing (lexicographic) order.  The normal equations are
\* sums over the rows, so the solver is handed the same system whatever their order.
RowsInOrder(X) ==
    \A k \in 1..(Len(X) - 1) :
        \A c \in 1..Len(X[k]) :
            (\A d \in 1..(c - 1) : X[k][d] = X[k + 1][d]) => X[k][c][1] <= X[k + 1][c][1]

\* the coefficient vectors <<c0, c1, .., cp>> of the generating linear models
FitCoefs(p) ==
    {<<c0>> \o c : c0 \in Nums(0..MaxCoef), c \in Vectors(p, -1..MaxCoef)}

MetricsExamples ==
    {[yTrue |-> Vec(<<1, 2, 3>>), yPred |-> Vec(<<1, 2, 3>>)],
     [yTrue |-> Vec(<<1, 2, 3>>), yPred |-> Vec(<<0, 0, 0>>)]}

\* the rows handed to trainTestSplit: n distinct feature rows with distinct targets
SplitX(n) == [k \in 1..n |-> <<Num(k), Num(2 * k)>>]
SplitY(n) == [k \in 1..n |-> Num(10 * k)]

\* randomState as ModelTraining.tsx supplies it (parseInt of a number input with no
\* minimum: an integer of either sign, or NaN for an empty field), or absent
Seeds == {Num(42), Num(7), Num(0 - 10), NaN, Undefined}

\* testSize: the UI default 0.2 and its other end 0.5, and values the function
\* itself does not exclude
TestSizes == {Norm(1, 5), Norm(1, 2), Zero, One, Norm(3, 2), NaN}

\* the smaller choice of arguments for a session of several calls
SessionSizes == 0..MaxN
SessionTestSizes == {Norm(1, 5), Norm(1, 2)}

RECURSIVE LcgAfter(_, _)
\* the closure's state after k draws
LcgAfter(state, k) == IF k = 0 THEN state ELSE LcgAfter(LcgNext(state), k - 1)

\* the Math.random a call can find: the native one, or the closure an earlier
\* seeded call installed, advanced by the draws made since
PriorSources ==
    {NativeRandom} \cup
    {SeededRandom(LcgAfter(seed, k)) : seed \in Seeds \ {Undefined}, k \in 0..MaxDraws}

RECURSIVE Factorial(_)
Factorial(n) == IF n <= 1 THEN 1 ELSE n * Factorial(n - 1)

\* what the native Math.random returns in iteration i, as far as line 96 can tell:
\* one value for each index 0..i it can select
NativePicks(n) ==
    {[i \in 1..(n - 1) |-> Norm((q \div Factorial(i)) % (i + 1), i + 1)] :
        q \in 0..(Factorial(n) - 1)}

\* the native values matter only to a call that draws from the native source
PicksFor(n, rng) ==
    IF rng.native THEN NativePicks(n) ELSE {[i \in 1..(n - 1) |-> Zero]}

\* the cells of a column handed to getValueCounts: numbers, strings (two of them
\* written like numbers, two of them names that Object.prototype defines), a
\* missing key and null
CountCells ==
    {NumberValue(1), NumberValue(2), NumberValue(10),
     StringValue(Str(<<"1">>)), StringValue(Str(<<"1", "0">>)),
     StringValue(Str(<<"a">>)), StringValue(Str(<<"b">>)),
     StringValue(ConstructorKey), StringValue(ProtoKey),
     UndefinedValue, NullValue}

\* the cells of a column handed to getUniqueValues
UniqueCells ==
    {NumberValue(1), NumberValue(2), NumberValue(10),
     StringValue(Str(<<"1">>)), StringValue(Str(<<"1", "a">>)),
     StringValue(Str(<<"a">>)), StringValue(Str(<<"b">>)),
     UndefinedValue, NullValue}

Columns(n, cells) == [1..n -> cells]

ColumnExamples ==
    {[i \in 1..5 |-> StringValue(Str(<< <<"a">>, <<"b">>, <<"a">>, <<"a">>, <<"c">> >>[i]))],
     <<NumberValue(1), NullValue, StringValue(Str(<<"1">>)), NumberValue(1), UndefinedValue>>}

MaxData == 2        \* a dataset handed to replaceValues has at most MaxData rows

\* a property of an object
Property(key, value) == [key |-> key, value |-> value]

ColumnX == Str(<<"x">>)
ColumnK == Str(<<"k">>)
ColumnZ == Str(<<"z">>)

\* the cells of the column x of a dataset: numbers, texts (one written like a number,
\* two of them names that Object.prototype defines) and null
ReplaceCells ==
    {NumberValue(1), StringValue(Str(<<"1">>)), StringValue(Str(<<"a">>)),
     StringValue(ConstructorKey), StringValue(ProtoKey), NullValue}

\* the rows of a dataset: a row has the column k and has or lacks the column x
ReplaceRows ==
    {<<Property(ColumnX, cell), Property(ColumnK, other)>> :
        cell \in ReplaceCells, other \in {NumberValue(2), StringValue(Str(<<"b">>))}}
    \cup {<<Property(ColumnK, other)>> : other \in {NumberValue(2), StringValue(Str(<<"b">>))}}

\* the replacement maps: plain objects from text to number
ReplacementMaps ==
    {<<>>,
     <<Property(Str(<<"a">>), NumberValue(0))>>,
     <<Property(Str(<<"a">>), NumberValue(0)), Property(Str(<<"1">>), NumberValue(5))>>,
     <<Property(Str(<<"u", "n", "d", "e", "f", "i", "n", "e", "d">>), NumberValue(7)),
       Property(Str(<<"n", "u", "l", "l">>), NumberValue(8))>>,
     <<Property(ConstructorKey, NumberValue(3))>>}

ColumnF == Str(<<"f">>)
ColumnT == Str(<<"t">>)

\* the number NaN as a cell
NaNValue == [t |-> "number", v |-> NaN]

\* the feature cells of a dataset handed to extractFeatures: a number, a text that
\* starts like a number, a text that does not
FeatureCells == {NumberValue(2), StringValue(Str(<<"1", "a">>)), StringValue(Str(<<"a">>))}

\* its target cells
TargetCells ==
    {NumberValue(0), NaNValue, StringValue(Str(<<"1", "0">>)), StringValue(Str(<<"1", "a">>)),
     StringValue(<<>>), NullValue}

\* its rows: a row has the column t and has or lacks the column f
ExtractRowSet ==
    {<<Property(ColumnF, f), Property(ColumnT, t)>> : f \in FeatureCells, t \in TargetCells}
    \cup {<<Property(ColumnT, t)>> : t \in TargetCells}

\* the lists of feature columns: none, one, one twice, one and the target
FeatureLists == {<<>>, <<ColumnF>>, <<ColumnF, ColumnF>>, <<ColumnT, ColumnF>>}

ColumnA == Str(<<"a">>)
ColumnB == Str(<<"b">>)
ColumnY == Str(<<"y">>)
ColumnW == Str(<<"w">>)

\* a row of the columns a, b and y
RowABY(a, b, y) == <<Property(ColumnA, a), Property(ColumnB, b), Property(ColumnY, y)>>

\* the datasets the panel is given: none, three rows, five rows (their y cells
\* numbers or texts as a CSV file yields them), two rows whose y is a blank and a
\* word, and two rows of other columns
PanelDatasets ==
    {<<>>,
     <<RowABY(NumberValue(1), NumberValue(0), NumberValue(1)),
       RowABY(NumberValue(0), NumberValue(1), NumberValue(2)),
       RowABY(NumberValue(1), NumberValue(1), StringValue(Str(<<"4">>)))>>,
     <<RowABY(NumberValue(0), NumberValue(0), NumberValue(1)),
       RowABY(NumberValue(1), NumberValue(0), NumberValue(2)),
       RowABY(NumberValue(0), NumberValue(1), NumberValue(3)),
       RowABY(NumberValue(1), NumberValue(1), NumberValue(4)),
       RowABY(NumberValue(2), NumberValue(1), StringValue(Str(<<"5">>)))>>,
     <<RowABY(NumberValue(1), NumberValue(0), StringValue(Str(<<" ">>))),
       RowABY(NumberValue(0), NumberValue(1), StringValue(Str(<<"a">>)))>>,
     <<<<Property(ColumnA, NumberValue(1)), Property(ColumnW, NumberValue(2))>>,
       <<Property(ColumnA, NumberValue(2)), Property(ColumnW, NumberValue(3))>>>>}

\* what is typed into the Features field
FeatureTexts ==
    {<<>>, Str(<<"a">>), Str(<<"a", ",", "b">>), Str(<<" ", "b", ",", " ", "a">>),
     Str(<<"a", ",", "q">>)}

\* the Test Size field: the default 0.2, its upper end 0.5, and 1, which the field's
\* max attribute does not keep from being entered
PanelTestSizes == {Norm(1, 5), Norm(1, 2), One}

\* the Random State field, holding a non-negative integer
PanelSeeds == {Num(42), Num(7)}

MaxSteps == 5       \* a session with the panel has at most MaxSteps edits and requests

MaxSeed == 40       \* the seeds of a shuffle are 0..MaxSeed and a few larger ones
MaxShuffle == 5     \* a shuffle is of at most MaxShuffle rows

\* non-negative integer seeds: the small ones, the largest state of the generator,
\* the modulus and numbers above it
ShuffleSeeds ==
    {Num(k) : k \in 0..MaxSeed}
    \cup {Num(42), Num(LcgModulus - 1), Num(LcgModulus), Num(1000003), Num(16000000)}

---------------------------------------------------------------------------
(* The calls *)

NoCall == [op |-> "none", pc |-> "none"]

\* the session of trainTestSplit calls starts with the engine's own Math.random
Init ==
    /\ call = NoCall
    /\ mathRandom = NativeRandom
    /\ ref = NoCall
    /\ calls = 0

InitSplit ==
    /\ \E n \in 0..MaxN, testSize \in TestSizes, randomState \in Seeds :
          call = [op |-> "trainTestSplit", pc |-> "called", n |-> n,
                  testSize |-> testSize, randomState |-> randomState]
    /\ mathRandom \in PriorSources
    /\ ref = NoCall
    /\ calls = 0

SolverCalled(A, b) == [op |-> "gaussianElimination", pc |-> "called", A |-> A, b |-> b]

InitSolver ==
    /\ \/ \E in \in SolverExamples : call = SolverCalled(in.A, in.b)
       \/ \E n \in SolverDims :
            \E A \in Matrices(n, n, -1..MaxEntry), b \in Vectors(n, -1..MaxEntry) :
                call = SolverCalled(A, b)
    /\ mathRandom = NativeRandom
    /\ ref = NoCall
    /\ calls = 0

\* generatedBy is history: the coefficients of the linear model y was computed from,
\* <<>> for a y chosen freely
FitCalled(X, y, c) ==
    [op |-> "trainLinearRegression", pc |-> "called", X |-> X, y |-> y, generatedBy |-> c]

InitFit ==
    /\ \/ \E in \in FitExamples : call = FitCalled(in.X, in.y, in.c)
       \/ call = FitCalled(<<>>, <<>>, <<>>)
       \/ \E p \in FitFeatures, n \in FitRowCounts :
            \E X \in Matrices(n, p, 0..MaxFeature) :
                /\ RowsInOrder(X)
                /\ \/ \E y \in Vectors(n, 0..MaxTarget) : call = FitCalled(X, y, <<>>)
                   \/ \E c \in FitCoefs(p) : call = FitCalled(X, Linear(X, c), c)
    /\ mathRandom = NativeRandom
    /\ ref = NoCall
    /\ calls = 0

MetricsCalled(yTrue, yPred) ==
    [op |-> "calculateMetrics", pc |-> "called", yTrue |-> yTrue, yPred |-> yPred]

InitMetrics ==
    /\ \/ \E in \in MetricsExamples : call = MetricsCalled(in.yTrue, in.yPred)
       \/ \E k, l \in 0..MaxLen :
            \E yTrue \in Vectors(k, 0..MaxTrue), yPred \in Vectors(l, 0..MaxPred) :
                call = MetricsCalled(yTrue, yPred)
    /\ mathRandom = NativeRandom
    /\ ref = NoCall
    /\ calls = 0

ColumnCalled(op, column) == [op |-> op, pc |-> "called", column |-> column]

InitCounts ==
    /\ \/ \E column \in ColumnExamples : call = ColumnCalled("getValueCounts", column)
       \/ \E n \in 0..MaxRows :
            \E column \in Columns(n, CountCells) : call = ColumnCalled("getValueCounts", column)
    /\ mathRandom = NativeRandom
    /\ ref = NoCall
    /\ calls = 0

InitUnique ==
    /\ \/ \E column \in ColumnExamples : call = ColumnCalled("getUniqueValues", column)
       \/ \E n \in 0..MaxRows :
            \E column \in Columns(n, UniqueCells) : call = ColumnCalled("getUniqueValues", column)
    /\ mathRandom = NativeRandom
    /\ ref = NoCall
    /\ calls = 0

GetValueCountsCall ==
    /\ call.op = "getValueCounts" /\ call.pc = "called"
    /\ \E result \in GetValueCounts(call.column) :
         call' = [op |-> "getValueCounts", pc |-> "returned",
                  column |-> call.column, result |-> result]
    /\ UNCHANGED <<mathRandom, ref, calls>>

GetUniqueValuesCall ==
    /\ call.op = "getUniqueValues" /\ call.pc = "called"
    /\ \E result \in GetUniqueValues(call.column) :
         call' = [op |-> "getUniqueValues", pc |-> "returned",
                  column |-> call.column, result |-> result]
    /\ UNCHANGED <<mathRandom, ref, calls>>

GaussianEliminationCall ==
    /\ call.op = "gaussianElimination" /\ call.pc = "called"
    /\ LET r == GaussianElimination(call.A, call.b)
       IN call' = [op |-> "gaussianElimination", pc |-> "returned",
                   A |-> call.A, b |-> call.b,
                   solution |-> r.solution, AAfter |-> r.AAfter, bAfter |-> r.bAfter]
    /\ UNCHANGED <<mathRandom, ref, calls>>

TrainLinearRegressionCall ==
    /\ call.op = "trainLinearRegression" /\ call.pc = "called"
    /\ LET model == TrainLinearRegression(call.X, call.y)
       IN call' = [op |-> "trainLinearRegression", pc |-> "returned",
                   X |-> call.X, y |-> call.y, generatedBy |-> call.generatedBy,
                   model |-> model,
                   predictions |-> IF model.status = "returned"
                                   THEN Predict(model, call.X) ELSE <<>>]
    /\ UNCHANGED <<mathRandom, ref, calls>>

CalculateMetricsCall ==
    /\ call.op = "calculateMetrics" /\ call.pc = "called"
    /\ call' = [op |-> "calculateMetrics", pc |-> "returned",
                yTrue |-> call.yTrue, yPred |-> call.yPred,
                metrics |-> CalculateMetrics(call.yTrue, call.yPred)]
    /\ UNCHANGED <<mathRandom, ref, calls>>

\* the record of a trainTestSplit call that has returned r
SplitReturned(n, testSize, randomState, r, seq) ==
    [op |-> "trainTestSplit", pc |-> "returned", seq |-> seq,
     X |-> SplitX(n), y |-> SplitY(n), testSize |-> testSize, randomState |-> randomState,
     xTrain |-> r.xTrain, xTest |-> r.xTest, yTrain |-> r.yTrain, yTest |-> r.yTest,
     indices |-> r.indices, trainIndices |-> r.trainIndices, testIndices |-> r.testIndices]

\* a session: one more call of trainTestSplit, on whatever Math.random the calls
\* before it left behind.  The history variable ref keeps or does not keep a seeded
\* call, for comparison with the calls that follow.
TrainTestSplitCall ==
    /\ calls < MaxCalls
    /\ \E n \in SessionSizes, testSize \in SessionTestSizes, randomState \in Seeds,
          keep \in BOOLEAN :
         \E picks \in PicksFor(n, Install(mathRandom, randomState)) :
            LET r == TrainTestSplit(SplitX(n), SplitY(n), testSize, randomState,
                                    mathRandom, picks)
                this == SplitReturned(n, testSize, randomState, r, calls + 1)
            IN /\ call' = this
               /\ mathRandom' = r.mathRandom
               /\ ref' = IF keep /\ randomState # Undefined THEN this ELSE ref
               /\ calls' = calls + 1

\* a single call, its arguments and the Math.random it finds drawn by InitSplit
TrainTestSplitOnce ==
    /\ call.op = "trainTestSplit" /\ call.pc = "called"
    /\ \E picks \in PicksFor(call.n, Install(mathRandom, call.randomState)) :
         LET r == TrainTestSplit(SplitX(call.n), SplitY(call.n), call.testSize,
                                 call.randomState, mathRandom, picks)
         IN /\ call' = SplitReturned(call.n, call.testSize, call.randomState, r, 1)
            /\ mathRandom' = r.mathRandom
    /\ UNCHANGED <<ref, calls>>

InitReplace ==
    /\ \E n \in 0..MaxData :
         \E heap \in [1..n -> ReplaceRows], column \in {ColumnX, ColumnZ},
            replacements \in ReplacementMaps :
            call = [op |-> "replaceValues", pc |-> "called", heap |-> heap,
                    data |-> [i \in 1..n |-> i], column |-> column,
                    replacements |-> replacements]
    /\ mathRandom = NativeRandom
    /\ ref = NoCall
    /\ calls = 0

ReplaceValuesCall ==
    /\ call.op = "replaceValues" /\ call.pc = "called"
    /\ LET r == ReplaceValues(call.heap, call.data, call.column, call.replacements)
       IN call' = [op |-> "replaceValues", pc |-> "returned", heap |-> call.heap,
                   data |-> call.data, column |-> call.column,
                   replacements |-> call.replacements,
                   heapAfter |-> r.heap, result |-> r.result]
    /\ UNCHANGED <<mathRandom, ref, calls>>

InitExtract ==
    /\ \E n \in 0..MaxData :
         \E data \in [1..n -> ExtractRowSet], featureColumns \in FeatureLists,
            targetColumn \in {ColumnT, ColumnZ} :
            call = [op |-> "extractFeatures", pc |-> "called", data |-> data,
                    featureColumns |-> featureColumns, targetColumn |-> targetColumn]
    /\ mathRandom = NativeRandom
    /\ ref = NoCall
    /\ calls = 0

ExtractFeaturesCall ==
    /\ call.op = "extractFeatures" /\ call.pc = "called"
    /\ LET r == ExtractFeatures(call.data, call.featureColumns, call.targetColumn)
       IN call' = [op |-> "extractFeatures", pc |-> "returned", data |-> call.data,
                   featureColumns |-> call.featureColumns,
                   targetColumn |-> call.targetColumn, X |-> r.X, y |-> r.y]
    /\ UNCHANGED <<mathRandom, ref, calls>>

\* toasts, by title and what the description reports
ToastSpecifyBoth == "Error: Please specify both features and target column"
ToastInvalidColumns == "Error: Invalid columns"
ToastTargetNotFound == "Error: Target column not found"
ToastNoValidData == "Error: No valid data points found for training"
ToastSplitComplete == "Data Split Complete"
ToastSplitFirst == "Error: Please split the data first"
ToastTrained == "Model Trained Successfully"
ToastTrainingFailed == "Training Failed"
NoToast == "none"

\* lines 12-18: the panel as mounted on a dataset.  handler, toast, extracted and
\* splitCalled are history: the handler that ran last, the toast it raised, and
\* whether it called extractFeatures and trainTestSplit; splitBy is the last
\* request that succeeded, with what was extracted for it and the split it got.
PanelMounted(data) ==
    [op |-> "ModelTraining", data |-> data,
     testSize |-> Norm(1, 5), randomState |-> Num(42), features |-> <<>>, target |-> <<>>,
     splitData |-> NullValue, isTraining |-> FALSE, model |-> NullValue,
     handler |-> "none", toast |-> NoToast, extracted |-> FALSE, splitCalled |-> FALSE,
     splitBy |-> NullValue]

InitPanel ==
    /\ \E data \in PanelDatasets : call = PanelMounted(data)
    /\ mathRandom = NativeRandom
    /\ ref = NoCall
    /\ calls = 0

PanelLive == call.op = "ModelTraining"

\* a state update of an input handler
Edited(name) ==
    [call EXCEPT !.handler = name, !.toast = NoToast, !.extracted = FALSE,
                 !.splitCalled = FALSE]

\* line 11: the parent renders the panel with another dataset
DataChange ==
    /\ PanelLive /\ calls < MaxSteps
    /\ \E data \in PanelDatasets \ {call.data} :
         call' = [Edited("data") EXCEPT !.data = data]
    /\ calls' = calls + 1
    /\ UNCHANGED <<mathRandom, ref>>

\* line 152
SetTestSize ==
    /\ PanelLive /\ calls < MaxSteps
    /\ \E testSize \in PanelTestSizes \ {call.testSize} :
         call' = [Edited("setTestSize") EXCEPT !.testSize = testSize]
    /\ calls' = calls + 1
    /\ UNCHANGED <<mathRandom, ref>>

\* line 168
SetRandomState ==
    /\ PanelLive /\ calls < MaxSteps
    /\ \E randomState \in PanelSeeds \ {call.randomState} :
         call' = [Edited("setRandomState") EXCEPT !.randomState = randomState]
    /\ calls' = calls + 1
    /\ UNCHANGED <<mathRandom, ref>>

\* line 215
SetFeatures ==
    /\ PanelLive /\ calls < MaxSteps
    /\ \E features \in FeatureTexts \ {call.features} :
         call' = [Edited("setFeatures") EXCEPT !.features = features]
    /\ calls' = calls + 1
    /\ UNCHANGED <<mathRandom, ref>>

\* lines 228-237: the options of the select are '' and the numeric columns
SetTarget ==
    /\ PanelLive /\ calls < MaxSteps
    /\ \E target \in ({<<>>} \cup NumericColumns(call.data)) \ {call.target} :
         call' = [Edited("setTarget") EXCEPT !.target = target]
    /\ calls' = calls + 1
    /\ UNCHANGED <<mathRandom, ref>>

\* lines 26-87.  No statement of the try block throws on rows that are objects, so
\* the catch of lines 80-86 is not entered.
HandleSplitData ==
    /\ PanelLive /\ calls < MaxSteps
    /\ LET columns == ColumnsOf(call.data)
           featureColumns == FeatureColumnsOf(call.features)
           Rejected(toast, extracted) ==
               /\ call' = [call EXCEPT !.handler = "handleSplitData", !.toast = toast,
                                       !.extracted = extracted, !.splitCalled = FALSE]
               /\ UNCHANGED mathRandom
       IN IF Len(Trim(call.features)) = 0 \/ Len(Trim(call.target)) = 0
          THEN Rejected(ToastSpecifyBoth, FALSE)
          ELSE IF Len(InvalidColumns(featureColumns, columns)) > 0
          THEN Rejected(ToastInvalidColumns, FALSE)
          ELSE IF ~Includes(columns, call.target)
          THEN Rejected(ToastTargetNotFound, FALSE)
          ELSE LET e == ExtractFeatures(call.data, featureColumns, call.target)
               IN IF NoValidData(e.X)
                  THEN Rejected(ToastNoValidData, TRUE)
                  ELSE \E picks \in PicksFor(Len(e.X), Install(mathRandom, call.randomState)) :
                         LET r == TrainTestSplit(e.X, e.y, call.testSize, call.randomState,
                                                 mathRandom, picks)
                             split == [xTrain |-> r.xTrain, xTest |-> r.xTest,
                                       yTrain |-> r.yTrain, yTest |-> r.yTest]
                         IN /\ call' = [call EXCEPT
                                          !.splitData = split,
                                          !.handler = "handleSplitData",
                                          !.toast = ToastSplitComplete,
                                          !.extracted = TRUE, !.splitCalled = TRUE,
                                          !.splitBy = [featureColumns |-> featureColumns,
                                                       target |-> call.target,
                                                       X |-> e.X, y |-> e.y,
                                                       split |-> split]]
                            /\ mathRandom' = r.mathRandom
    /\ calls' = calls + 1
    /\ UNCHANGED ref

\* the props the results view is rendered with once the panel has reported a model:
\* the arguments of onModelTrained
ResultsMounted(model, split, features, target) ==
    [op |-> "Results", pc |-> "mounted", model |-> model, split |-> split,
     features |-> features, target |-> target, metrics |-> NullValue]

\* the arrays line 103 hands to trainLinearRegression
TrainingSetOfTest(splitData) == [X |-> splitData.xTest, y |-> splitData.yTest]

TrainingSet(splitData) == [X |-> splitData.xTrain, y |-> splitData.yTrain]

\* lines 89-124.  The handler has no await and runs to its end in one step; the
\* TypeError of trainLinearRegression on an empty training set is caught at line
\* 115, and line 122 runs on either path.
HandleTrainModel ==
    /\ PanelLive /\ calls < MaxSteps
    /\ IF call.splitData = NullValue
       THEN /\ call' = [call EXCEPT !.handler = "handleTrainModel",
                                    !.toast = ToastSplitFirst,
                                    !.extracted = FALSE, !.splitCalled = FALSE]
            /\ UNCHANGED ref
       ELSE LET started == [call EXCEPT !.isTraining = TRUE,
                                        !.handler = "handleTrainModel",
                                        !.extracted = FALSE, !.splitCalled = FALSE]
                set == TrainingSet(call.splitData)
                trainedModel == TrainModel(set.X, set.y)
            IN IF trainedModel.status = "returned"
               THEN /\ call' = [started EXCEPT !.model = trainedModel,
                                               !.toast = ToastTrained,
                                               !.isTraining = FALSE]
                    /\ ref' = ResultsMounted(trainedModel, call.splitData,
                                             FeatureColumnsOf(call.features), call.target)
               ELSE /\ call' = [started EXCEPT !.toast = ToastTrainingFailed,
                                               !.isTraining = FALSE]
                    /\ UNCHANGED ref
    /\ calls' = calls + 1
    /\ UNCHANGED mathRandom

\* Results.tsx 17-34: the effect that runs once the view has a model and a split
ResultsEffect ==
    /\ ref.op = "Results" /\ ref.pc = "mounted"
    /\ LET yPred == Predict(ref.model, ref.split.xTest)
           calculatedMetrics == CalculateMetrics(ref.split.yTest, yPred)
       IN ref' = [ref EXCEPT !.pc = "rendered",
                             !.metrics = [r2 |-> calculatedMetrics.r2,
                                          mse |-> calculatedMetrics.mse,
                                          mae |-> calculatedMetrics.mae,
                                          coefficients |-> ref.model.coefficients,
                                          intercept |-> ref.model.intercept]]
    /\ UNCHANGED <<call, mathRandom, calls>>

NextPanel ==
    \/ DataChange
    \/ SetTestSize
    \/ SetRandomState
    \/ SetFeatures
    \/ SetTarget
    \/ HandleSplitData
    \/ HandleTrainModel
    \/ ResultsEffect

\* a call with a non-negative integer seed, on the native Math.random or on the
\* closure an earlier call left
InitShuffle ==
    /\ \E n \in 0..MaxShuffle, randomState \in ShuffleSeeds :
          call = [op |-> "trainTestSplit", pc |-> "called", n |-> n,
                  testSize |-> Norm(1, 5), randomState |-> randomState]
    /\ mathRandom \in {NativeRandom, SeededRandom(Num(7))}
    /\ ref = NoCall
    /\ calls = 0

Spec == Init /\ [][TrainTestSplitCall]_vars
SpecSplit == InitSplit /\ [][TrainTestSplitOnce]_vars
SpecSolver == InitSolver /\ [][GaussianEliminationCall]_vars
SpecFit == InitFit /\ [][TrainLinearRegressionCall]_vars
SpecMetrics == InitMetrics /\ [][CalculateMetricsCall]_vars
SpecCounts == InitCounts /\ [][GetValueCountsCall]_vars
SpecUnique == InitUnique /\ [][GetUniqueValuesCall]_vars
SpecReplace == InitReplace /\ [][ReplaceValuesCall]_vars
SpecExtract == InitExtract /\ [][ExtractFeaturesCall]_vars
SpecPanel == InitPanel /\ [][NextPanel]_vars
SpecShuffle == InitShuffle /\ [][TrainTestSplitOnce]_vars

---------------------------------------------------------------------------
(* Properties *)

SplitDone == call.op = "trainTestSplit" /\ call.pc = "returned"
SolverDone == call.op = "gaussianElimination" /\ call.pc = "returned"
FitDone == call.op = "trainLinearRegression" /\ call.pc = "returned"
MetricsDone == call.op = "calculateMetrics" /\ call.pc = "returned"

Range(f) == {f[k] : k \in 1..Len(f)}

\* C1: Split completeness.  Whatever the length n, the testFraction and the seed
\* (supplied or absent), the lengths of xTrain and xTest sum to n, the original row
\* indices placed in train and in test are disjoint and together are exactly
\* 0..n-1, none is duplicated, and no returned row is undefined.
SplitCompleteness ==
    SplitDone =>
        LET n == Len(call.X)
        IN /\ Len(call.xTrain) + Len(call.xTest) = n
           /\ Range(call.trainIndices) \cap Range(call.testIndices) = {}
           /\ Range(call.trainIndices) \cup Range(call.testIndices) = Nums(0..(n - 1))
           /\ Cardinality(Range(call.trainIndices)) = Len(call.trainIndices)
           /\ Cardinality(Range(call.testIndices)) = Len(call.testIndices)
           /\ Undefined \notin Range(call.xTrain) \cup Range(call.xTest)

SameArguments(c, d) ==
    /\ c.X = d.X /\ c.y = d.y
    /\ c.testSize = d.testSize
    /\ c.randomState = d.randomState

\* C2: Split determinism.  A seeded call returns the same xTrain, xTest, yTrain and
\* yTest as any earlier call with the same X, y, testFraction and seed, whatever
\* calls (seeded otherwise, or unseeded) were made before or between the two.
SplitDeterminism ==
    (SplitDone /\ ref.op = "trainTestSplit" /\ SameArguments(call, ref)) =>
        /\ call.xTrain = ref.xTrain /\ call.xTest = ref.xTest
        /\ call.yTrain = ref.yTrain /\ call.yTest = ref.yTest

\* C2 witness: the third call of a session repeats the arguments of its first call,
\* kept in ref, on at least three rows, and the shuffle moved a row.
SplitDeterminismWitness ==
    /\ SplitDone /\ ref.op = "trainTestSplit"
    /\ call.seq = 3 /\ ref.seq = 1
    /\ SameArguments(call, ref)
    /\ call.randomState = Num(7)
    /\ Len(call.X) >= 3
    /\ call.xTrain # Slice(call.X, 0, Len(call.xTrain))

\* C3: A call of trainTestSplit with a seed leaves the process-wide Math.random
\* unchanged.
SeededSplitKeepsMathRandom ==
    [][(call'.op = "trainTestSplit" /\ call'.pc = "returned"
            /\ call'.randomState # Undefined)
          => mathRandom' = mathRandom]_vars

\* the normal-equations matrix of the training call is singular
SingularDesign(X) == IsZero(Det(NormalMatrix(DesignMatrix(X))))

\* C4: Fitting on collinear feature columns fails with an error, and no returned
\* model has an intercept or a coefficient that is NaN or infinite.
CollinearFitFails ==
    (FitDone /\ Len(call.X) > 0) =>
        /\ SingularDesign(call.X) => call.model.status # "returned"
        /\ call.model.status = "returned" =>
              IsFinite(call.model.intercept) /\ AllFinite(call.model.coefficients)

\* the pivots the elimination divided by: the diagonal once it has finished
Pivots(A, b) ==
    LET aug == ForwardElimination(Augment(A, b), 1)
    IN {aug.m[i][i] : i \in 1..Len(A)}

\* C5: gaussianElimination returns no solution when a pivot is zero after the
\* partial-pivoting swap, and a solution it returns holds no NaN and no infinity.
ZeroPivotSignalled ==
    SolverDone =>
        /\ \A v \in Pivots(call.A, call.b) : ~IsZero(v)
        /\ AllFinite(call.solution)

\* C6: Solver correctness.  For a square non-singular A, gaussianElimination(A, b)
\* returns x of length n with A.x = b, and A and b are as they were.
SolverCorrect ==
    (SolverDone /\ ~IsZero(Det(call.A))) =>
        /\ Len(call.solution) = Len(call.A)
        /\ MatVec(call.A, call.solution) = call.b
        /\ call.AAfter = call.A /\ call.bAfter = call.b

\* C6 witness: the system [[2,1],[1,3]] x = [3,5] has been solved, x = [0.8, 1.4].
SolverCorrectWitness ==
    /\ SolverDone
    /\ call.A = Mat(<< <<2, 1>>, <<1, 3>> >>) /\ call.b = Vec(<<3, 5>>)
    /\ call.solution = <<Norm(4, 5), Norm(7, 5)>>

\* C7: For p >= 2 features the returned [intercept, coefficients...] solves the
\* normal equations of the design matrix D = [1, row], DtD.beta = Dty, with
\* exactly p coefficients in feature order.
NormalEquationsSolved ==
    (FitDone /\ call.model.status = "returned" /\ Len(call.X[1]) >= 2) =>
        LET D == [k \in 1..Len(call.X) |-> <<One>> \o call.X[k]]
            beta == <<call.model.intercept>> \o call.model.coefficients
        IN /\ Len(call.model.coefficients) = Len(call.X[1])
           /\ MatVec(NormalMatrix(D), beta) = NormalVector(D, call.y)

Slopes(c) == Slice(c, 1, Len(c))
AllZero(v) == \A k \in 1..Len(v) : IsZero(v[k])

\* y of the call is exactly the linear model generatedBy applied to the rows of X,
\* and the design matrix of X has full column rank
RoundTripCase ==
    /\ FitDone /\ Len(call.X) > 0
    /\ call.generatedBy # <<>>
    /\ call.y = Linear(call.X, call.generatedBy)
    /\ ~SingularDesign(call.X)

\* C8 as stated: when y = c0 + c1 x1 + c2 x2 exactly and the design matrix has full
\* column rank, the fit returns intercept c0, coefficients [c1, c2], score 1, and
\* predict(X) = y.
RoundTripScoreAlwaysOne ==
    RoundTripCase =>
        /\ call.model.status = "returned"
        /\ call.model.intercept = call.generatedBy[1]
        /\ call.model.coefficients = Slopes(call.generatedBy)
        /\ call.model.score = One
        /\ call.predictions = call.y

\* C8 amended: as stated, except that the score is 1 only when some coefficient
\* c1, c2 is not zero; when all are zero y is constant and the score is NaN.
RoundTrip ==
    RoundTripCase =>
        /\ call.model.status = "returned"
        /\ call.model.intercept = call.generatedBy[1]
        /\ call.model.coefficients = Slopes(call.generatedBy)
        /\ call.model.score = IF AllZero(Slopes(call.generatedBy)) THEN NaN ELSE One
        /\ call.predictions = call.y

\* C8 witness: the fit of y = 3 + 2 x1 - x2 on four rows of full rank has returned
\* intercept 3, coefficients [2, -1] and score 1.
RoundTripWitness ==
    /\ FitDone
    /\ call.X = Mat(<< <<1, 0>>, <<0, 1>>, <<2, 2>>, <<3, 1>> >>)
    /\ call.generatedBy = Vec(<<3, 2, 0 - 1>>)
    /\ RoundTripCase
    /\ call.model.status = "returned"
    /\ call.model.intercept = Num(3)
    /\ call.model.coefficients = Vec(<<2, 0 - 1>>)
    /\ call.model.score = One

Constant(y) == \A i, j \in 1..Len(y) : y[i] = y[j]

\* C9: When all true targets are equal (SStot = 0), the r2 that calculateMetrics
\* returns is NaN, for every yPred.
ConstantTargetR2IsNaN ==
    (MetricsDone /\ Len(call.yTrue) > 0 /\ Constant(call.yTrue)) =>
        IsNaN(call.metrics.r2)

\* C10: calculateMetrics returns no metrics object when yTrue and yPred differ in
\* length.
LengthMismatchRejected ==
    MetricsDone => Len(call.yTrue) = Len(call.yPred)

\* C11: calculateMetrics returns no metrics object when yTrue and yPred are empty.
EmptyInputRejected ==
    MetricsDone => ~(Len(call.yTrue) = 0 /\ Len(call.yPred) = 0)

\* C12: trainLinearRegression on zero rows fails, and fails as InsufficientData.
NoRowsInsufficientData ==
    (FitDone /\ Len(call.X) = 0) => call.model.status = "InsufficientData"

RECURSIVE IntSum(_, _)
\* f[1] + .. + f[n] of integers
IntSum(f, n) == IF n = 0 THEN 0 ELSE f[n] + IntSum(f, n - 1)

\* the integer differences yTrue[i] - yPred[i] of two integer sequences of one length
Differences(yTrue, yPred) == [i \in 1..Len(yTrue) |-> yTrue[i][1] - yPred[i][1]]

\* C13: For yTrue and yPred of one length n > 0, mse is the sum of the squared
\* differences over n, mae the sum of the absolute differences over n, and neither
\* is negative.
MseMaeAsDefined ==
    (MetricsDone /\ Len(call.yTrue) = Len(call.yPred) /\ Len(call.yTrue) > 0) =>
        LET n == Len(call.yTrue)
            d == Differences(call.yTrue, call.yPred)
        IN /\ call.metrics.mse = Norm(IntSum([i \in 1..n |-> d[i] * d[i]], n), n)
           /\ call.metrics.mae = Norm(IntSum([i \in 1..n |-> AbsInt(d[i])], n), n)
           /\ call.metrics.mse[1] >= 0 /\ call.metrics.mse[2] > 0
           /\ call.metrics.mae[1] >= 0 /\ call.metrics.mae[2] > 0

\* C13 witness: calculateMetrics([1,2,3], [0,0,0]) has returned mse 14/3 and mae 2.
MseMaeWitness ==
    /\ MetricsDone
    /\ call.yTrue = Vec(<<1, 2, 3>>) /\ call.yPred = Vec(<<0, 0, 0>>)
    /\ call.metrics.mse = Norm(14, 3)
    /\ call.metrics.mae = Num(2)

\* a <= b as JavaScript compares numbers: false when either is NaN
NLe(a, b) == ~IsNaN(a) /\ ~IsNaN(b) /\ ~NGt(a, b)

\* C14: Metrics sanity.  For a non-empty yTrue with two distinct values,
\* calculateMetrics(yTrue, yTrue) returns r2 = 1, mse = 0 and mae = 0, and the r2
\* returned is at most 1 for every yPred.
MetricsSanity ==
    (MetricsDone /\ Len(call.yTrue) > 0 /\ ~Constant(call.yTrue)) =>
        /\ call.yPred = call.yTrue =>
              /\ call.metrics.r2 = One
              /\ call.metrics.mse = Zero
              /\ call.metrics.mae = Zero
        /\ NLe(call.metrics.r2, One)

\* the same for yPred of the length of yTrue only
MetricsSanityEqualLengths ==
    Len(call.yTrue) = Len(call.yPred) => MetricsSanity

\* floor(n * testSize) and n less that, computed on integers; NaN for a testSize
\* that is not finite
ExpectedTestCount(n, testSize) ==
    IF IsFinite(testSize) THEN Num((n * testSize[1]) \div testSize[2]) ELSE NaN

SplitAtTestCount ==
    LET n == Len(call.X)
        testCount == ExpectedTestCount(n, call.testSize)
        trainCount == IF IsFinite(testCount) THEN Num(n - testCount[1]) ELSE NaN
    IN /\ Num(Len(call.xTest)) = testCount
       /\ Num(Len(call.xTrain)) = trainCount
       /\ call.trainIndices = [k \in 1..Len(call.xTrain) |-> call.indices[k]]
       /\ call.testIndices = [k \in 1..Len(call.xTest) |-> call.indices[Len(call.xTrain) + k]]
       /\ call.xTrain = [k \in 1..Len(call.xTrain) |-> Pick(call.X, call.indices[k])]
       /\ call.xTest = [k \in 1..Len(call.xTest) |->
                            Pick(call.X, call.indices[Len(call.xTrain) + k])]

InUnitInterval(a) == IsFinite(a) /\ a[1] >= 0 /\ a[1] <= a[2]

AlignedWith(xs, ys, X, y) ==
    /\ Len(xs) = Len(ys)
    /\ \A k \in 1..Len(xs) : \E i \in 1..Len(X) : xs[k] = X[i] /\ ys[k] = y[i]

\* C16: Alignment.  xTrain[k] and yTrain[k] are X[i] and y[i] for one original index
\* i, for every k, and so are xTest[k] and yTest[k]; xTrain is as long as yTrain and
\* xTest as long as yTest.
SplitAligned ==
    SplitDone =>
        /\ AlignedWith(call.xTrain, call.yTrain, call.X, call.y)
        /\ AlignedWith(call.xTest, call.yTest, call.X, call.y)

\* the same for the calls whose shuffle kept every index in the array
SplitAlignedOnPermutations ==
    (SplitDone /\ Undefined \notin Range(call.indices)) => SplitAligned

CountsDone == call.op = "getValueCounts" /\ call.pc = "returned"
UniqueDone == call.op = "getUniqueValues" /\ call.pc = "returned"

\* the string forms of the cells of a column, and the rows that have a form
Forms(column) == {StringOf(column[i]) : i \in 1..Len(column)}
RowsWithForm(column, str) == {i \in 1..Len(column) : StringOf(column[i]) = str}

\* C17: getValueCounts returns one entry per distinct string form of the cells, its
\* count the number of rows with that form, the entries in non-increasing order of
\* count.
ValueCountsAsDefined ==
    CountsDone =>
        LET r == call.result
        IN /\ {r[k].value : k \in 1..Len(r)} = Forms(call.column)
           /\ Len(r) = Cardinality(Forms(call.column))
           /\ \A k \in 1..Len(r) :
                r[k].count = NumberValue(Cardinality(RowsWithForm(call.column, r[k].value)))
           /\ \A j, k \in 1..Len(r) : j < k => r[j].count.v[1] >= r[k].count.v[1]

\* the same for the columns none of whose cells is written like a name that
\* Object.prototype defines
ValueCountsOnPlainKeys ==
    (CountsDone /\ Forms(call.column) \cap {ProtoKey, ConstructorKey} = {}) =>
        ValueCountsAsDefined

\* the first row of the column with the string form str
FirstRow(column, str) ==
    CHOOSE i \in RowsWithForm(column, str) : \A o \in RowsWithForm(column, str) : i <= o

\* C18: In the result of getValueCounts, entries with equal counts are in the order
\* in which their values were first met in the rows.
TiesInFirstSeenOrder ==
    CountsDone =>
        LET r == call.result
        IN \A j, k \in 1..Len(r) :
              (j < k /\ r[j].count = r[k].count
                     /\ RowsWithForm(call.column, r[j].value) # {}
                     /\ RowsWithForm(call.column, r[k].value) # {})
                => FirstRow(call.column, r[j].value) < FirstRow(call.column, r[k].value)

\* the same for the columns no cell of which is written like an array index or like
\* a name that Object.prototype defines
TiesOnPlainKeys ==
    (CountsDone /\ \A str \in Forms(call.column) :
                      ~IsArrayIndex(str) /\ str \notin {ProtoKey, ConstructorKey}) =>
        TiesInFirstSeenOrder

\* C19: getUniqueValues returns exactly the string and number values of the column,
\* each once; cells of any other type are left out.
UniqueAsDefined ==
    UniqueDone =>
        LET r == call.result
        IN /\ \A j, k \in 1..Len(r) : j # k => r[j] # r[k]
           /\ {r[k] : k \in 1..Len(r)} =
                 {call.column[i] : i \in {j \in 1..Len(call.column) :
                                            call.column[j].t \in {"string", "number"}}}

\* C19 witness: the column [1, null, "1", 1, undefined] has been reduced to the
\* number 1 and the string "1".
UniqueWitness ==
    /\ UniqueDone
    /\ call.column = <<NumberValue(1), NullValue, StringValue(Str(<<"1">>)),
                       NumberValue(1), UndefinedValue>>
    /\ call.result = <<NumberValue(1), StringValue(Str(<<"1">>))>>

\* C20: The result of getUniqueValues is ascending numerically when all its values
\* are numbers, in lexicographic order when all are strings, in lexicographic order
\* of the string forms otherwise, and is the same for every order of the rows.
UniqueOrdered ==
    UniqueDone =>
        LET r == call.result
            n == Len(call.column)
            AllOf(type) == \A k \in 1..Len(r) : r[k].t = type
        IN /\ \A j, k \in 1..Len(r) :
                j < k =>
                    IF AllOf("number") THEN r[j].v[1] < r[k].v[1]
                    ELSE IF AllOf("string") THEN LocaleCompare(r[j].v, r[k].v) < 0
                    ELSE LocaleCompare(StringOf(r[j]), StringOf(r[k])) <= 0
           /\ \A p \in Permutations(1..n) :
                GetUniqueValues([i \in 1..n |-> call.column[p[i]]]) = {r}

\* the same for the columns whose string and number cells are all numbers or all
\* strings
UniqueOrderedOneType ==
    (UniqueDone /\ \/ \A i \in 1..Len(call.column) : call.column[i].t # "string"
                   \/ \A i \in 1..Len(call.column) : call.column[i].t # "number") =>
        UniqueOrdered

ReplaceDone == call.op = "replaceValues" /\ call.pc = "returned"

\* the cell of a column in row i of the dataset given and of the dataset returned
CellBefore(i, column) == GetProperty(call.heap[call.data[i]], column)
CellAfter(i, column) == GetProperty(call.heapAfter[call.result[i]], column)

\* the keys of the rows given and returned
RowKeys(row) == {row[j].key : j \in 1..Len(row)}
AllKeys ==
    UNION {RowKeys(call.heap[call.data[i]]) \cup RowKeys(call.heapAfter[call.result[i]]) :
              i \in 1..Len(call.data)} \cup {call.column}

\* C21: replaceValues returns for each row the mapped number when the string form of
\* the row's cell in the column is a key of the map, and the original value
\* otherwise; a map none of whose keys is the string form of a cell of the column
\* returns a dataset equal to the input cell by cell.
ReplacedAsDefined ==
    ReplaceDone =>
        /\ Len(call.result) = Len(call.data)
        /\ \A i \in 1..Len(call.data) :
              CellAfter(i, call.column) =
                 IF HasOwn(call.replacements, StringOf(CellBefore(i, call.column)))
                 THEN GetProperty(call.replacements, StringOf(CellBefore(i, call.column)))
                 ELSE CellBefore(i, call.column)
        /\ (\A i \in 1..Len(call.data) :
               ~HasOwn(call.replacements, StringOf(CellBefore(i, call.column))))
             => \A i \in 1..Len(call.data) : \A key \in AllKeys :
                    CellAfter(i, key) = CellBefore(i, key)

\* the same for the datasets no cell of whose column is written like a name that
\* Object.prototype defines
ReplacedOnPlainCells ==
    (ReplaceDone /\ \A i \in 1..Len(call.data) :
                       StringOf(CellBefore(i, call.column)) \notin {ProtoKey, ConstructorKey})
        => ReplacedAsDefined

\* C22: replaceValues returns as many rows as it was given, in the same order, every
\* column but the one named keeping its value in every row; the rows given are not
\* changed, and the rows returned are new objects.
ReplaceFrame ==
    ReplaceDone =>
        /\ Len(call.result) = Len(call.data)
        /\ \A i \in 1..Len(call.data) : \A key \in AllKeys \ {call.column} :
              /\ CellAfter(i, key) = CellBefore(i, key)
              /\ HasOwn(call.heapAfter[call.result[i]], key)
                    <=> HasOwn(call.heap[call.data[i]], key)
        /\ \A id \in 1..Len(call.heap) : call.heapAfter[id] = call.heap[id]
        /\ \A i \in 1..Len(call.result) :
              /\ call.result[i] \in (Len(call.heap) + 1)..Len(call.heapAfter)
              /\ \A j \in 1..Len(call.result) : i # j => call.result[i] # call.result[j]

\* C22 witness: of the rows {x: "a", k: 2} and {k: "b"} the first has had its x
\* replaced by 0; both returned rows are new objects and keep their k.
ReplaceFrameWitness ==
    /\ ReplaceDone
    /\ call.column = ColumnX
    /\ call.heap = << <<Property(ColumnX, StringValue(Str(<<"a">>))),
                        Property(ColumnK, NumberValue(2))>>,
                      <<Property(ColumnK, StringValue(Str(<<"b">>)))>> >>
    /\ call.result = <<3, 4>>
    /\ CellAfter(1, ColumnX) = NumberValue(0)
    /\ CellAfter(1, ColumnK) = NumberValue(2)
    /\ CellAfter(2, ColumnK) = StringValue(Str(<<"b">>))
    /\ Len(call.heapAfter) = 4

ExtractDone == call.op = "extractFeatures" /\ call.pc = "returned"

\* a cell parses to a number: it is a number other than NaN, or a text with a
\* leading digit; Parsed is that number
Parses(cell) ==
    \/ cell.t = "number" /\ cell.v # NaN
    \/ cell.t = "string" /\ Len(cell.v) > 0 /\ IsDigit(cell.v[1])

Parsed(cell) ==
    IF cell.t = "number" THEN cell.v
    ELSE LET k == CHOOSE k \in 1..Len(cell.v) :
                     /\ \A j \in 1..k : IsDigit(cell.v[j])
                     /\ k = Len(cell.v) \/ ~IsDigit(cell.v[k + 1])
         IN Num(DigitsValue(cell.v, k))

\* the rows of the dataset whose target cell parses, and the k-th of them
KeptRows == {i \in 1..Len(call.data) : Parses(GetProperty(call.data[i], call.targetColumn))}
KeptRow(k) == CHOOSE i \in KeptRows : Cardinality({j \in KeptRows : j <= i}) = k

\* C23: extractFeatures keeps a row iff its target cell parses to a number; the rows
\* kept give, in the order of the dataset, one feature vector each, with one entry
\* per feature column, 0 for a cell that does not parse, and one target value; X and
\* y have the same length.
ExtractAsDefined ==
    ExtractDone =>
        /\ Len(call.X) = Cardinality(KeptRows)
        /\ Len(call.y) = Len(call.X)
        /\ \A k \in 1..Len(call.X) :
              LET row == call.data[KeptRow(k)]
              IN /\ call.y[k] = Parsed(GetProperty(row, call.targetColumn))
                 /\ Len(call.X[k]) = Len(call.featureColumns)
                 /\ \A j \in 1..Len(call.featureColumns) :
                       LET cell == GetProperty(row, call.featureColumns[j])
                       IN call.X[k][j] = IF Parses(cell) THEN Parsed(cell) ELSE Zero

\* C23 witness: of the rows {f: "a", t: "1a"} and {f: 2, t: ""} the first is kept as
\* features [0] and target 1, the second is dropped.
ExtractWitness ==
    /\ ExtractDone
    /\ call.data = << <<Property(ColumnF, StringValue(Str(<<"a">>))),
                        Property(ColumnT, StringValue(Str(<<"1", "a">>)))>>,
                      <<Property(ColumnF, NumberValue(2)),
                        Property(ColumnT, StringValue(<<>>))>> >>
    /\ call.featureColumns = <<ColumnF>>
    /\ call.targetColumn = ColumnT
    /\ call.X = <<<<Zero>>>>
    /\ call.y = <<One>>

\* a step of the panel's handler of the given name
HandlerStep(name) ==
    PanelLive /\ calls' = calls + 1 /\ call'.handler = name

ErrorToasts ==
    {ToastSpecifyBoth, ToastInvalidColumns, ToastTargetNotFound, ToastNoValidData,
     ToastSplitFirst, ToastTrainingFailed}

\* the column names of a dataset
ColumnSet(data) ==
    IF Len(data) = 0 THEN {} ELSE {data[1][j].key : j \in 1..Len(data[1])}

\* the request the panel holds names a feature column or a target column that the
\* dataset lacks
NamesAbsentColumn ==
    LET featureColumns == FeatureColumnsOf(call.features)
    IN \/ \E i \in 1..Len(featureColumns) : featureColumns[i] \notin ColumnSet(call.data)
       \/ call.target \notin ColumnSet(call.data)

\* C24: A split request that names a feature column or a target column absent from
\* the dataset's columns is rejected with an error: neither extractFeatures nor
\* trainTestSplit is called and splitData keeps its value.
InvalidColumnRejected ==
    [][(HandlerStep("handleSplitData") /\ NamesAbsentColumn) =>
          /\ call'.toast \in ErrorToasts
          /\ ~call'.extracted
          /\ ~call'.splitCalled
          /\ call'.splitData = call.splitData
          /\ mathRandom' = mathRandom]_vars

\* C24 witness: with a split of the features a, b stored, the request for the
\* features a, q has been rejected as naming invalid columns, the split still there.
InvalidColumnWitness ==
    /\ PanelLive
    /\ call.handler = "handleSplitData"
    /\ call.features = Str(<<"a", ",", "q">>)
    /\ call.toast = ToastInvalidColumns
    /\ call.splitData # NullValue
    /\ call.splitBy # NullValue
    /\ call.splitBy.featureColumns = <<ColumnA, ColumnB>>

\* the same for a target the dataset lacks: the target y chosen on one dataset,
\* the request made on a dataset of other columns
InvalidTargetReached ==
    /\ PanelLive
    /\ call.handler = "handleSplitData"
    /\ call.toast = ToastTargetNotFound
    /\ call.target = ColumnY

\* the rows of the panel's dataset whose cell in the target column parses to a number
UsableRows ==
    {i \in 1..Len(call.data) : Parses(GetProperty(call.data[i], call.target))}

\* C25: When no row of the dataset has a target that is a number, a split request
\* ends in an error: trainTestSplit is not called and splitData keeps its value; a
\* stored split is never without rows.
NoUsableRowsRejected ==
    /\ [](PanelLive /\ call.splitData # NullValue
            => Len(call.splitData.xTrain) + Len(call.splitData.xTest) > 0)
    /\ [][(HandlerStep("handleSplitData") /\ UsableRows = {}) =>
             /\ call'.toast \in ErrorToasts
             /\ ~call'.splitCalled
             /\ call'.splitData = call.splitData
             /\ mathRandom' = mathRandom]_vars

\* C25 witness: with a split stored, a request on the dataset whose y cells are a
\* blank and a word has passed the column checks, found no usable row and left the
\* split as it was.
NoUsableRowsWitness ==
    /\ PanelLive
    /\ call.handler = "handleSplitData"
    /\ call.toast = ToastNoValidData
    /\ call.extracted /\ ~call.splitCalled
    /\ call.target = ColumnY
    /\ Len(call.data) = 2
    /\ call.splitData # NullValue
    /\ Len(call.splitData.xTrain) > 0

\* the results view has run its effect, that is, has called calculateMetrics on the
\* yTest of its split
MetricsComputed == ref.op = "Results" /\ ref.pc = "rendered"

\* C27: In the workflow of split, train and results, calculateMetrics is never
\* called with a yTest of length 0.
MetricsNeverOnEmptyTest ==
    MetricsComputed => Len(ref.split.yTest) > 0

RECURSIVE AugmentedAfter(_, _, _)
\* the augmented matrix of gaussianElimination(A, b) once the pivot columns 1..i are
\* done
AugmentedAfter(A, b, i) ==
    IF i = 0 THEN Augment(A, b)
    ELSE LET before == AugmentedAfter(A, b, i - 1)
         IN EliminateBelow(SwapRows(before, i, FindPivot(before, i, i + 1, i)), i)

\* at pivot column i the row swapped into place i is one of the rows i..n, none of
\* which has an entry of larger absolute value in column i, and the elimination
\* leaves zero in column i below it
PivotStepAsDefined(A, b, i) ==
    LET n == Len(A)
        before == AugmentedAfter(A, b, i - 1)
        after == AugmentedAfter(A, b, i)
    IN /\ \E r \in i..n :
            /\ after.id[i] = before.id[r]
            /\ after.m[i] = before.m[r]
       /\ \A k \in i..n : ~NGt(NAbs(before.m[k][i]), NAbs(after.m[i][i]))
       /\ \A k \in (i + 1)..n : after.m[k][i] = Zero

\* C26: Partial pivoting in gaussianElimination: at each pivot column i the row
\* swapped into position i has the largest absolute value in column i among the
\* rows i..n-1 of the current augmented matrix, and after the elimination step for
\* column i every entry below the pivot in column i is zero.
PartialPivoting ==
    SolverDone => \A i \in 1..Len(call.A) : PivotStepAsDefined(call.A, call.b, i)

\* the same for the systems in which no pivot is zero
PartialPivotingOnNonZeroPivots ==
    (SolverDone /\ \A v \in Pivots(call.A, call.b) : ~IsZero(v) /\ ~IsNaN(v))
        => PartialPivoting

\* the panel has reported a model: the results view holds the arguments of
\* onModelTrained
ModelReported == PanelLive /\ ref.op = "Results"

\* C28: Whenever the panel reports a trained model through onModelTrained, the
\* feature columns and the target it reports are those of the handleSplitData call
\* that produced the reported split, and there are as many reported features as the
\* model has coefficients.
ReportedColumnsAreThoseOfSplit ==
    [][HandlerStep("handleTrainModel") /\ call'.toast = ToastTrained =>
          /\ ref'.split = call.splitData
          /\ ref'.features = call.splitBy.featureColumns
          /\ ref'.target = call.splitBy.target
          /\ Len(ref'.features) = Len(ref'.model.coefficients)]_vars

\* the same for the train requests made while the Features and Target fields still
\* hold what the split was requested with
ReportedColumnsWhenUnedited ==
    [][(/\ HandlerStep("handleTrainModel") /\ call'.toast = ToastTrained
        /\ FeatureColumnsOf(call.features) = call.splitBy.featureColumns
        /\ call.target = call.splitBy.target) =>
          /\ ref'.split = call.splitData
          /\ ref'.features = call.splitBy.featureColumns
          /\ ref'.target = call.splitBy.target
          /\ Len(ref'.features) = Len(ref'.model.coefficients)]_vars

\* C29: Training is ordered after splitting.  A model is stored and reported only
\* after a handleSplitData call has succeeded; a train request that stores a model
\* fits it on the xTrain and yTrain of the most recent successful split and reports
\* it with that split; a train request without a split leaves the model as it was
\* and raises an error; after every train request isTraining is false.
TrainingAfterSplitting ==
    /\ [](PanelLive /\ (call.model # NullValue \/ ref.op = "Results")
            => call.splitBy # NullValue)
    /\ [][HandlerStep("handleTrainModel") =>
             /\ call'.isTraining = FALSE
             /\ call.splitData = NullValue =>
                   /\ call'.model = call.model
                   /\ call'.toast = ToastSplitFirst
                   /\ ref' = ref
             /\ call'.model # call.model \/ ref' # ref =>
                   /\ call.splitBy # NullValue
                   /\ call'.model = TrainModel(call.splitBy.split.xTrain,
                                               call.splitBy.split.yTrain)
                   /\ ref'.model = call'.model
                   /\ ref'.split = call.splitBy.split
                   /\ ref'.pc = "mounted"]_vars

\* C29 witness: after a split of the five-row dataset with the seed 7, a train
\* request has stored a model and reported it with that split.
TrainingAfterSplittingWitness ==
    /\ PanelLive
    /\ call.handler = "handleTrainModel"
    /\ call.toast = ToastTrained
    /\ call.randomState = Num(7)
    /\ call.model # NullValue
    /\ ref.op = "Results" /\ ref.model = call.model /\ ref.split = call.splitData
    /\ Len(call.splitData.xTrain) = 4
    /\ ~call.isTraining

\* a train request that failed: the training part of the split was empty
TrainingFailedReached ==
    /\ PanelLive
    /\ call.handler = "handleTrainModel"
    /\ call.toast = ToastTrainingFailed
    /\ call.splitData # NullValue
    /\ ~call.isTraining

\* a train request made before any split
TrainWithoutSplitReached ==
    /\ PanelLive
    /\ call.handler = "handleTrainModel"
    /\ call.toast = ToastSplitFirst
    /\ call.model = NullValue

RECURSIVE ShuffleTrace(_, _, _)
\* the iterations i, i-1, .., 1 of the loop of lines 95-98 on a seeded source: for
\* each the state of the generator after the draw, the value drawn, the swap index
\* and the index array after the swap
ShuffleTrace(arr, rng, i) ==
    IF i <= 0 THEN <<>>
    ELSE LET d == MathRandomCall(rng, Zero)
             j == SwapIndex(d.value, i)
             swapped == SwapEntries(arr, i, j)
         IN <<[i |-> i, state |-> d.rng.state, value |-> d.value, j |-> j,
               indices |-> swapped]>>
            \o ShuffleTrace(swapped, d.rng, i - 1)

\* the trace of the call that has returned
CallTrace == ShuffleTrace(InitialIndices(Len(call.X)), SeededRandom(call.randomState),
                          Len(call.X) - 1)

IsNat(a) == IsFinite(a) /\ a[2] = 1 /\ a[1] >= 0

\* C30: For every non-negative integer seed the state of the seeded generator is an
\* integer in 0..233279 after every draw, every value drawn is in [0, 1), every swap
\* index j is an integer with 0 <= j <= i, and the index array is a permutation of
\* 0..n-1 after every swap.
SeededShuffleInRange ==
    (SplitDone /\ IsNat(call.randomState)) =>
        LET n == Len(call.X)
            trace == CallTrace
        IN /\ Len(trace) = (IF n = 0 THEN 0 ELSE n - 1)
           /\ \A k \in 1..Len(trace) :
                 /\ IsNat(trace[k].state) /\ trace[k].state[1] \in 0..(LcgModulus - 1)
                 /\ IsFinite(trace[k].value)
                 /\ trace[k].value[1] >= 0 /\ trace[k].value[1] < trace[k].value[2]
                 /\ IsNat(trace[k].j) /\ trace[k].j[1] <= trace[k].i
                 /\ trace[k].indices.props = {}
                 /\ Len(trace[k].indices.elems) = n
                 /\ {trace[k].indices.elems[q] : q \in 1..n} = {Num(v) : v \in 0..(n - 1)}
           /\ Len(trace) > 0 =>
                 /\ call.indices = trace[Len(trace)].indices.elems
                 /\ mathRandom = [native |-> FALSE, state |-> trace[Len(trace)].state]
           /\ {call.indices[q] : q \in 1..n} = {Num(v) : v \in 0..(n - 1)}

\* C30 witness: the seed 233279, the largest state, on five rows: four draws, the
\* first of which moved a row, and the indices returned are not in their first
\* order.
SeededShuffleWitness ==
    /\ SplitDone
    /\ call.randomState = Num(LcgModulus - 1)
    /\ Len(call.X) = 5
    /\ Len(CallTrace) = 4
    /\ CallTrace[1].j[1] < 4
    /\ call.indices # InitialIndices(5).elems

====
